---- MODULE Spec2Model ----
(***************************************************************************)
(* The unified entity traverser of prisma-neighbourhood                    *)
(* (traversal/entity-traverser.ts): a depth-limited breadth-first walk     *)
(* over a ParsedSchema (models, views, enums) from a start entity.         *)
(*                                                                         *)
(* A ReadonlyMap<string, T> is modelled as the sequence of its values in   *)
(* insertion order; every value is stored under its own name, as the       *)
(* parser does (models.set(model.name, model)), so the names of one map    *)
(* are pairwise distinct.  A Field keeps its `type`, a Relation its        *)
(* `relatedModel`: the traverser reads nothing else of them.               *)
(***************************************************************************)
EXTENDS Integers, Sequences, FiniteSets, TLC

\* ------------------------------------------------------------------ bounds
\* The names calls ask for and schemas are built from.  One name may be used
\* by a model, a view and an enum at once: the traverser does not verify
\* that names are unique across kinds.
Names == {"A", "B", "C"}

\* Models and views of one schema, together.
MaxEntities == 3

\* Fields of all models and views of one schema, together.
MaxFields == 2

\* Relations of all models and views of one schema, together.
MaxRelations == 2

\* Views of one schema.
MaxViews == 1

\* The largest maxDepth a call passes explicitly.
MaxDepthArg == 2

\* Calls that may be in progress at once (call 1 alone under Spec).
CallIds == {1, 2}

\* Relations of all models of one schema under ModelsSpec, together, and
\* relations of one of its models.
ModelOnlyRelations == 3

ModelOwnRelations == 2

\* Relations of one model, and fields of one model, in the blog schemas.
BlogRelations == 2

BlogFields == 2

\* ------------------------------------------------------- program constants
DEFAULT_MAX_DEPTH == 3

\* ------------------------------------------------------------- the schema
\* Two families of schemas, both within MaxEntities, MaxViews and MaxFields:
\*   linked schemas: relations, fields and any enums over the names A and B,
\*                   so that names collide across kinds and cycles close;
\*   flat schemas:   no relations, models, views and field types over all of
\*                   Names and the enum C or none, so that one enum has
\*                   several users next to entities that do not use it.
LinkedNames == {"A", "B"}

FlatEnumNames == {"C"}

SeqsUpTo(S, n) == UNION {[1..k -> S] : k \in 0..n}

RECURSIVE TotalLen(_)
\* The lengths of the sequences of a sequence, added up.
TotalLen(lists) ==
    IF lists = <<>> THEN 0 ELSE Len(Head(lists)) + TotalLen(Tail(lists))

\* The keys of one map are pairwise distinct.
DistinctNames(map) ==
    \A i, j \in 1..Len(map) : map[i].name = map[j].name => i = j

\* The insertion orders of a map: distinct names, at most MaxEntities.
KeyOrders(names) ==
    {ns \in SeqsUpTo(names, Cardinality(names)) :
        /\ Len(ns) <= MaxEntities
        /\ \A i, j \in 1..Len(ns) : ns[i] = ns[j] => i = j}

\* The ways to give n entities lists of elements, at most max in all.
ListsFor(n, elements, max) ==
    {lists \in [1..n -> SeqsUpTo(elements, max)] : TotalLen(lists) <= max}

\* The models or views maps over the given names with at most maxRelations
\* relations in all: entities under distinct names in any insertion order,
\* each map paired with its size <<entities, fields, relations>>.
EntityMaps(names, maxRelations) ==
    UNION {{[map |-> [i \in 1..Len(ns) |->
                        [name |-> ns[i], fields |-> fs[i], relations |-> rs[i]]],
             size |-> <<Len(ns), TotalLen(fs), TotalLen(rs)>>] :
                fs \in ListsFor(Len(ns), [type : names], MaxFields),
                rs \in ListsFor(Len(ns), [relatedModel : names], maxRelations)} :
           ns \in KeyOrders(names)}

\* The enums maps with the names of the given sets.  The traverser only
\* looks enums up by name, so one insertion order per set is enough.
EnumMaps(nameSets) ==
    {CHOOSE e \in [1..Cardinality(S) -> [name : S]] : DistinctNames(e) : S \in nameSets}

LinkedMaps == EntityMaps(LinkedNames, MaxRelations)

LinkedEnums == EnumMaps(SUBSET LinkedNames)

FlatMaps == EntityMaps(Names, 0)

FlatEnums == EnumMaps(SUBSET FlatEnumNames)

LinkedViews == {v \in LinkedMaps : v.size[1] <= MaxViews}

FlatViews == {v \in FlatMaps : v.size[1] <= MaxViews}

\* The models and the views of one schema together respect the bounds.
FitTogether(models, views) ==
    /\ models.size[1] + views.size[1] <= MaxEntities
    /\ models.size[2] + views.size[2] <= MaxFields
    /\ models.size[3] + views.size[3] <= MaxRelations

\* ----------------------------------------------------------- map helpers
\* ReadonlyMap.get(name) !== undefined
MapHas(map, name) == \E i \in 1..Len(map) : map[i].name = name

\* ReadonlyMap.get(name), for a name the map has
MapGet(map, name) == map[CHOOSE i \in 1..Len(map) : map[i].name = name]

\* -------------------------------------------------------- entity lookup
\* The key without the kind: the bare name.
entityKeyNameOnly(kind, name) == name

entityKey(kind, name) == kind \o ":" \o name

\* findEntity without its third probe: enums are not looked up.
findEntityNoEnums(schema, name) ==
    IF MapHas(schema.models, name)
    THEN [found |-> TRUE, entity |-> MapGet(schema.models, name), kind |-> "model"]
    ELSE IF MapHas(schema.views, name)
    THEN [found |-> TRUE, entity |-> MapGet(schema.views, name), kind |-> "view"]
    ELSE [found |-> FALSE]

\* findEntity with its first two probes swapped: views before models.
findEntityViewsFirst(schema, name) ==
    IF MapHas(schema.views, name)
    THEN [found |-> TRUE, entity |-> MapGet(schema.views, name), kind |-> "view"]
    ELSE IF MapHas(schema.models, name)
    THEN [found |-> TRUE, entity |-> MapGet(schema.models, name), kind |-> "model"]
    ELSE IF MapHas(schema.enums, name)
    THEN [found |-> TRUE, entity |-> MapGet(schema.enums, name), kind |-> "enum"]
    ELSE [found |-> FALSE]

\* findEntity: models, then views, then enums.
findEntity(schema, name) ==
    IF MapHas(schema.models, name)
    THEN [found |-> TRUE, entity |-> MapGet(schema.models, name), kind |-> "model"]
    ELSE IF MapHas(schema.views, name)
    THEN [found |-> TRUE, entity |-> MapGet(schema.views, name), kind |-> "view"]
    ELSE IF MapHas(schema.enums, name)
    THEN [found |-> TRUE, entity |-> MapGet(schema.enums, name), kind |-> "enum"]
    ELSE [found |-> FALSE]

\* model.fields.some((f) => f.type === enumName)
usesEnum(entity, enumName) ==
    \E i \in 1..Len(entity.fields) : entity.fields[i].type = enumName

RECURSIVE UsersIn(_, _, _)
\* One of the two scans of findEntitiesUsingEnum, over the values of a map.
UsersIn(map, kind, enumName) ==
    IF map = <<>> THEN <<>>
    ELSE (IF usesEnum(Head(map), enumName)
          THEN <<[entity |-> Head(map), kind |-> kind]>>
          ELSE <<>>) \o UsersIn(Tail(map), kind, enumName)

\* findEntitiesUsingEnum with the two scans swapped: views before models.
findEntitiesUsingEnumViewsFirst(schema, enumName) ==
    UsersIn(schema.views, "view", enumName) \o UsersIn(schema.models, "model", enumName)

\* findEntitiesUsingEnum without its second scan: views are not searched.
findEntitiesUsingEnumModelsOnly(schema, enumName) ==
    UsersIn(schema.models, "model", enumName)

findEntitiesUsingEnum(schema, enumName) ==
    UsersIn(schema.models, "model", enumName) \o UsersIn(schema.views, "view", enumName)

RECURSIVE EnumsOf(_, _)
\* The loop of getReferencedEnums over the fields that are left.
EnumsOf(fields, schema) ==
    IF fields = <<>> THEN <<>>
    ELSE (IF MapHas(schema.enums, Head(fields).type)
          THEN <<MapGet(schema.enums, Head(fields).type)>>
          ELSE <<>>) \o EnumsOf(Tail(fields), schema)

getReferencedEnums(entity, schema) == EnumsOf(entity.fields, schema)

RECURSIVE RelatedOfBreak(_, _)
\* getRelatedEntities leaving its loop at the first relation that resolves
\* to nothing (break for continue).
RelatedOfBreak(relations, schema) ==
    IF relations = <<>> THEN <<>>
    ELSE IF MapHas(schema.models, Head(relations).relatedModel)
    THEN <<[entity |-> MapGet(schema.models, Head(relations).relatedModel),
            kind |-> "model"]>> \o RelatedOfBreak(Tail(relations), schema)
    ELSE IF MapHas(schema.views, Head(relations).relatedModel)
    THEN <<[entity |-> MapGet(schema.views, Head(relations).relatedModel),
            kind |-> "view"]>> \o RelatedOfBreak(Tail(relations), schema)
    ELSE <<>>

RECURSIVE RelatedOfModelsOnly(_, _)
\* getRelatedEntities resolving relations against schema.models alone.
RelatedOfModelsOnly(relations, schema) ==
    IF relations = <<>> THEN <<>>
    ELSE (IF MapHas(schema.models, Head(relations).relatedModel)
          THEN <<[entity |-> MapGet(schema.models, Head(relations).relatedModel),
                  kind |-> "model"]>>
          ELSE <<>>) \o RelatedOfModelsOnly(Tail(relations), schema)

RECURSIVE RelatedOfViewsFirst(_, _)
\* getRelatedEntities resolving a relation against the views before the models.
RelatedOfViewsFirst(relations, schema) ==
    IF relations = <<>> THEN <<>>
    ELSE (IF MapHas(schema.views, Head(relations).relatedModel)
          THEN <<[entity |-> MapGet(schema.views, Head(relations).relatedModel),
                  kind |-> "view"]>>
          ELSE IF MapHas(schema.models, Head(relations).relatedModel)
          THEN <<[entity |-> MapGet(schema.models, Head(relations).relatedModel),
                  kind |-> "model"]>>
          ELSE <<>>) \o RelatedOfViewsFirst(Tail(relations), schema)

RECURSIVE RelatedOf(_, _)
\* The loop of getRelatedEntities over the relations that are left.
RelatedOf(relations, schema) ==
    IF relations = <<>> THEN <<>>
    ELSE (IF MapHas(schema.models, Head(relations).relatedModel)
          THEN <<[entity |-> MapGet(schema.models, Head(relations).relatedModel),
                  kind |-> "model"]>>
          ELSE IF MapHas(schema.views, Head(relations).relatedModel)
          THEN <<[entity |-> MapGet(schema.views, Head(relations).relatedModel),
                  kind |-> "view"]>>
          ELSE <<>>) \o RelatedOf(Tail(relations), schema)

getRelatedEntities(entity, schema) == RelatedOf(entity.relations, schema)

\* ------------------------------------------------------- the BFS loop
\* A traversal's own data: bfs = [visited, queue, result].

\* The enqueue step without the visited check.
EnqueueAlways(bfs, entity, kind, depth) ==
    [bfs EXCEPT !.visited = @ \cup {entityKey(kind, entity.name)},
                !.queue = Append(@, [entity |-> entity, kind |-> kind, depth |-> depth])]

\* The enqueue step with queue.unshift for queue.push.
EnqueueUnshift(bfs, entity, kind, depth) ==
    IF entityKey(kind, entity.name) \in bfs.visited
    THEN bfs
    ELSE [bfs EXCEPT !.visited = @ \cup {entityKey(kind, entity.name)},
                     !.queue = <<[entity |-> entity, kind |-> kind, depth |-> depth]>> \o @]

\* The enqueue step without visited.add: queued but not marked.
EnqueueNoMark(bfs, entity, kind, depth) ==
    IF entityKey(kind, entity.name) \in bfs.visited
    THEN bfs
    ELSE [bfs EXCEPT !.queue = Append(@, [entity |-> entity, kind |-> kind, depth |-> depth])]

\* if (!visited.has(key)) { visited.add(key); queue.push({entity, kind, depth}) }
EnqueueIfNew(bfs, entity, kind, depth) ==
    IF entityKey(kind, entity.name) \in bfs.visited
    THEN bfs
    ELSE [bfs EXCEPT !.visited = @ \cup {entityKey(kind, entity.name)},
                     !.queue = Append(@, [entity |-> entity, kind |-> kind, depth |-> depth])]

RECURSIVE EnqueueAll(_, _, _)
\* for (const {entity, kind} of found) ...: the for loops of the expansion.
EnqueueAll(bfs, found, depth) ==
    IF found = <<>> THEN bfs
    ELSE EnqueueAll(EnqueueIfNew(bfs, Head(found).entity, Head(found).kind, depth),
                    Tail(found), depth)

\* getReferencedEnums returns bare enums; the loop enqueues them as kind "enum".
AsEnums(enums) == [i \in 1..Len(enums) |-> [entity |-> enums[i], kind |-> "enum"]]

\* The expansion with the enum loop enqueueing at depth for depth + 1.
ExploreEnumsSameDepth(bfs, schema, current) ==
    IF current.kind = "enum"
    THEN EnqueueAll(bfs, findEntitiesUsingEnum(schema, current.entity.name),
                    current.depth + 1)
    ELSE EnqueueAll(EnqueueAll(bfs, getRelatedEntities(current.entity, schema),
                               current.depth + 1),
                    AsEnums(getReferencedEnums(current.entity, schema)),
                    current.depth)

\* The expansion without its last loop: enum-typed fields are not followed.
ExploreRelationsOnly(bfs, schema, current) ==
    IF current.kind = "enum"
    THEN EnqueueAll(bfs, findEntitiesUsingEnum(schema, current.entity.name),
                    current.depth + 1)
    ELSE EnqueueAll(bfs, getRelatedEntities(current.entity, schema),
                    current.depth + 1)

\* The expansion with its two loops swapped: enums before relations.
ExploreEnumsFirst(bfs, schema, current) ==
    IF current.kind = "enum"
    THEN EnqueueAll(bfs, findEntitiesUsingEnum(schema, current.entity.name),
                    current.depth + 1)
    ELSE EnqueueAll(EnqueueAll(bfs, AsEnums(getReferencedEnums(current.entity, schema)),
                               current.depth + 1),
                    getRelatedEntities(current.entity, schema),
                    current.depth + 1)

\* Step 5: the neighbours of the dequeued record, by kind.
Explore(bfs, schema, current) ==
    IF current.kind = "enum"
    THEN EnqueueAll(bfs, findEntitiesUsingEnum(schema, current.entity.name),
                    current.depth + 1)
    ELSE EnqueueAll(EnqueueAll(bfs, getRelatedEntities(current.entity, schema),
                               current.depth + 1),
                    AsEnums(getReferencedEnums(current.entity, schema)),
                    current.depth + 1)

\* The loop body with queue.pop() for queue.shift().
LoopBodyPop(bfs, schema, maxDepth) ==
    LET current == bfs.queue[Len(bfs.queue)]
        popped == [bfs EXCEPT !.queue = SubSeq(@, 1, Len(@) - 1),
                              !.result = Append(@, current)]
    IN  IF current.depth >= maxDepth
        THEN popped
        ELSE Explore(popped, schema, current)

\* The loop body with depth > maxDepth for depth >= maxDepth.
LoopBodyDepthGreater(bfs, schema, maxDepth) ==
    LET current == Head(bfs.queue)
        shifted == [bfs EXCEPT !.queue = Tail(@), !.result = Append(@, current)]
    IN  IF current.depth > maxDepth
        THEN shifted
        ELSE Explore(shifted, schema, current)

\* The loop body with queue[0] for queue.shift(): the head is never removed.
LoopBodyPeek(bfs, schema, maxDepth) ==
    LET current == Head(bfs.queue)
        peeked == [bfs EXCEPT !.result = Append(@, current)]
    IN  IF current.depth >= maxDepth
        THEN peeked
        ELSE Explore(peeked, schema, current)

\* The loop body without the depth check: every record is expanded.
LoopBodyNoCutOff(bfs, schema, maxDepth) ==
    LET current == Head(bfs.queue)
        shifted == [bfs EXCEPT !.queue = Tail(@), !.result = Append(@, current)]
    IN  Explore(shifted, schema, current)

\* The loop body with depth === maxDepth for depth >= maxDepth.
LoopBodyDepthEquals(bfs, schema, maxDepth) ==
    LET current == Head(bfs.queue)
        shifted == [bfs EXCEPT !.queue = Tail(@), !.result = Append(@, current)]
    IN  IF current.depth = maxDepth
        THEN shifted
        ELSE Explore(shifted, schema, current)

\* One iteration of while (queue.length > 0): shift, record, expand.
LoopBody(bfs, schema, maxDepth) ==
    LET current == Head(bfs.queue)
        shifted == [bfs EXCEPT !.queue = Tail(@), !.result = Append(@, current)]
    IN  IF current.depth >= maxDepth
        THEN shifted
        ELSE Explore(shifted, schema, current)

\* Step 3 without visited.add: the start record is queued but not marked.
StartBfsNotVisited(startFound) ==
    [visited |-> {},
     queue |-> <<[entity |-> startFound.entity, kind |-> startFound.kind, depth |-> 0]>>,
     result |-> <<>>]

\* Steps 2 and 3: empty visited/result/queue, then the start record.
StartBfs(startFound) ==
    [visited |-> {entityKey(startFound.kind, startFound.entity.name)},
     queue |-> <<[entity |-> startFound.entity, kind |-> startFound.kind, depth |-> 0]>>,
     result |-> <<>>]

\* The template literal of the error, kept as its pieces.
NotFoundError(startEntityName) ==
    <<"Entity \"", startEntityName,
      "\" not found in schema (searched models, views, and enums)">>

\* The destructuring with a default of 2.
MaxDepthOfDefaultTwo(opts) ==
    IF "maxDepth" \in DOMAIN opts THEN opts.maxDepth ELSE 2

\* const { startEntity, maxDepth = DEFAULT_MAX_DEPTH } = options
MaxDepthOf(opts) ==
    IF "maxDepth" \in DOMAIN opts THEN opts.maxDepth ELSE DEFAULT_MAX_DEPTH

RECURSIVE RunLoop(_, _, _)
\* The while loop, run until the queue is empty: the result array.
RunLoop(bfs, schema, maxDepth) ==
    IF Len(bfs.queue) = 0 THEN bfs.result
    ELSE RunLoop(LoopBody(bfs, schema, maxDepth), schema, maxDepth)

\* traverseEntities as a function of its arguments.
traverseEntities(schema, opts) ==
    LET startFound == findEntity(schema, opts.startEntity)
    IN  IF ~startFound.found
        THEN [success |-> FALSE, error |-> NotFoundError(opts.startEntity)]
        ELSE [success |-> TRUE,
              entities |-> RunLoop(StartBfs(startFound), schema, MaxDepthOf(opts))]

\* ------------------------------------------- the model-only traverser
\* traverseModels of traversal/model-traverser.ts: a BFS over schema.models
\* alone, its visited set keyed by bare model names, its records
\* [model, depth].

\* The body of the relation loop without the visited check.
EnqueueModelUnchecked(bfs, schema, relation, depth) ==
    IF ~MapHas(schema.models, relation.relatedModel)
    THEN bfs
    ELSE [bfs EXCEPT !.visited = @ \cup {relation.relatedModel},
                     !.queue = Append(@, [model |-> MapGet(schema.models,
                                                           relation.relatedModel),
                                          depth |-> depth])]

\* The body of for (const relation of model.relations): skip a visited
\* name, skip a name schema.models does not have, else mark and enqueue.
EnqueueModelIfNew(bfs, schema, relation, depth) ==
    IF relation.relatedModel \in bfs.visited
    THEN bfs
    ELSE IF ~MapHas(schema.models, relation.relatedModel)
    THEN bfs
    ELSE [bfs EXCEPT !.visited = @ \cup {relation.relatedModel},
                     !.queue = Append(@, [model |-> MapGet(schema.models,
                                                           relation.relatedModel),
                                          depth |-> depth])]

RECURSIVE EnqueueModels(_, _, _, _)
\* Step 5 of traverseModels: the loop over the relations that are left.
EnqueueModels(bfs, schema, relations, depth) ==
    IF relations = <<>> THEN bfs
    ELSE EnqueueModels(EnqueueModelIfNew(bfs, schema, Head(relations), depth),
                       schema, Tail(relations), depth)

\* One iteration of the while loop of traverseModels, given what
\* current.depth >= maxDepth evaluates to.
ModelsIteration(bfs, schema, depthReached) ==
    LET current == Head(bfs.queue)
        shifted == [bfs EXCEPT !.queue = Tail(@), !.result = Append(@, current)]
    IN  IF depthReached
        THEN shifted
        ELSE EnqueueModels(shifted, schema, current.model.relations, current.depth + 1)

\* One iteration of the while loop of traverseModels, maxDepth an integer.
ModelsLoopBody(bfs, schema, maxDepth) ==
    ModelsIteration(bfs, schema, Head(bfs.queue).depth >= maxDepth)

\* Steps 2 and 3 of traverseModels.
StartModelsBfs(startModel, startModelName) ==
    [visited |-> {startModelName},
     queue |-> <<[model |-> startModel, depth |-> 0]>>,
     result |-> <<>>]

\* The template literal of traverseModels' error, kept as its pieces.
StartModelNotFound(startModelName) ==
    <<"Start model \"", startModelName, "\" not found in schema">>

\* -------------------------------------------------- the renderer registry
\* RendererRegistry of renderer/registry.ts.  The renderers map is kept as
\* the sequence of its values in insertion order, each under its own name;
\* a DiagramRenderer is its name, its description, what supportsExport()
\* returns (exports) and whether it has the optional export method (export).
DEFAULT_RENDERER_NAME == "vector"

\* new RendererRegistry()
NewRegistry == [renderers |-> <<>>, defaultRendererName |-> DEFAULT_RENDERER_NAME]

\* if (isDefault): isDefault may be left out of a registration.
IsDefault(registration) ==
    "isDefault" \in DOMAIN registration /\ registration.isDefault

\* The template literal of register's error, kept as its pieces.
AlreadyRegistered(name) == <<"Renderer \"", name, "\" is already registered">>

\* register setting the default name before the duplicate check.
registerDefaultFirst(registry, registration) ==
    LET named == IF IsDefault(registration)
                 THEN [registry EXCEPT !.defaultRendererName = registration.renderer.name]
                 ELSE registry
    IN  IF MapHas(registry.renderers, registration.renderer.name)
        THEN [registry |-> named,
              thrown |-> AlreadyRegistered(registration.renderer.name)]
        ELSE [registry |-> [named EXCEPT !.renderers = Append(@, registration.renderer)],
              thrown |-> <<>>]

\* register(registration): the registry after the call and what it threw
\* (<<>> when it returned).
register(registry, registration) ==
    IF MapHas(registry.renderers, registration.renderer.name)
    THEN [registry |-> registry,
          thrown |-> AlreadyRegistered(registration.renderer.name)]
    ELSE [registry |->
            [renderers |-> Append(registry.renderers, registration.renderer),
             defaultRendererName |->
                IF IsDefault(registration) THEN registration.renderer.name
                ELSE registry.defaultRendererName],
          thrown |-> <<>>]

\* get(name): the renderer, or undefined.
get(registry, name) ==
    IF MapHas(registry.renderers, name)
    THEN [found |-> TRUE, renderer |-> MapGet(registry.renderers, name)]
    ELSE [found |-> FALSE]

getDefault(registry) == get(registry, registry.defaultRendererName)

getDefaultName(registry) == registry.defaultRendererName

\* listNames(): the keys in insertion order.
listNames(registry) == [i \in 1..Len(registry.renderers) |-> registry.renderers[i].name]

\* clear leaving the default name as it is.
clearKeepingDefault(registry) == [registry EXCEPT !.renderers = <<>>]

\* clear()
clear(registry) ==
    [renderers |-> <<>>, defaultRendererName |-> DEFAULT_RENDERER_NAME]

\* ------------------------------------------------------ the command line
\* What runCommand (cli/commands.ts) and parseCliOptions (cli/options.ts)
\* compute.  A string that is parsed is the sequence of its characters; a
\* JavaScript number is NaN or an integer.
NaN == [nan |-> TRUE, value |-> 0]

Number(n) == [nan |-> FALSE, value |-> n]

\* x >= y of JavaScript, x an integer: false when y is NaN.
AtLeast(x, y) == ~y.nan /\ x >= y.value

\* x < y of JavaScript, y an integer: false when x is NaN.
LessThan(x, y) == ~x.nan /\ x.value < y

DigitValue ==
    [ch \in {"0", "1", "2", "3", "4", "5", "6", "7", "8", "9"} |->
        CASE ch = "0" -> 0 [] ch = "1" -> 1 [] ch = "2" -> 2 [] ch = "3" -> 3
          [] ch = "4" -> 4 [] ch = "5" -> 5 [] ch = "6" -> 6 [] ch = "7" -> 7
          [] ch = "8" -> 8 [] ch = "9" -> 9]

RECURSIVE TrimStart(_)
\* The string without its leading white space.
TrimStart(string) ==
    IF string # <<>> /\ Head(string) = " " THEN TrimStart(Tail(string)) ELSE string

RECURSIVE LeadingDigits(_)
\* The longest prefix of decimal digits.
LeadingDigits(string) ==
    IF string # <<>> /\ Head(string) \in DOMAIN DigitValue
    THEN <<Head(string)>> \o LeadingDigits(Tail(string))
    ELSE <<>>

RECURSIVE DecimalValue(_)
DecimalValue(digits) ==
    IF digits = <<>> THEN 0
    ELSE 10 * DecimalValue(SubSeq(digits, 1, Len(digits) - 1))
            + DigitValue[digits[Len(digits)]]

\* parseInt(string, 10): leading white space is skipped, one sign is read,
\* then decimal digits up to the first other character; NaN without a digit.
parseInt(string) ==
    LET trimmed == TrimStart(string)
        signed == trimmed # <<>> /\ Head(trimmed) \in {"+", "-"}
        digits == LeadingDigits(IF signed THEN Tail(trimmed) ELSE trimmed)
    IN  IF digits = <<>> THEN NaN
        ELSE IF signed /\ Head(trimmed) = "-" THEN Number(0 - DecimalValue(digits))
        ELSE Number(DecimalValue(digits))

\* String(n) for the one-digit numbers the defaults hold.
String(n) == <<CHOOSE ch \in DOMAIN DigitValue : DigitValue[ch] = n>>

DEFAULT_CLI_DEPTH == 3

\* depthValue.startsWith("-")
StartsWithDash(string) == string # <<>> /\ Head(string) = "-"

\* parseCliOptions accepting every depth that parses to a number.
parseDepthOptionAnyNumber(args) ==
    IF Len(args) < 2 \/ args[2] = <<>> \/ StartsWithDash(args[2])
    THEN [success |-> FALSE, error |-> <<"Missing value for --depth option">>]
    ELSE LET parsed == parseInt(args[2])
         IN  IF parsed.nan
             THEN [success |-> FALSE, error |-> <<"Invalid depth value: ", args[2]>>]
             ELSE [success |-> TRUE, depth |-> parsed]

\* parseCliOptions on the arguments of its --depth case: <<"--depth">> alone
\* or followed by the value; no arguments leave the default.
parseDepthOption(args) ==
    IF args = <<>> THEN [success |-> TRUE, depth |-> Number(DEFAULT_CLI_DEPTH)]
    ELSE IF Len(args) < 2 \/ args[2] = <<>> \/ StartsWithDash(args[2])
    THEN [success |-> FALSE, error |-> <<"Missing value for --depth option">>]
    ELSE LET parsed == parseInt(args[2])
         IN  IF parsed.nan \/ LessThan(parsed, 0)
             THEN [success |-> FALSE, error |-> <<"Invalid depth value: ", args[2]>>]
             ELSE [success |-> TRUE, depth |-> parsed]

\* A path is its pieces, a piece that starts with a dot being written as
\* one; extname is the last piece when it is such a piece and not the first.
IsDotPiece(piece) == piece \in {".mmd", ".md", ".png", ".pdf", ".txt", ".PNG", ".Pdf"}

extname(path) ==
    IF Len(path) >= 2 /\ IsDotPiece(path[Len(path)]) THEN path[Len(path)] ELSE ""

toLowerCase(ext) ==
    CASE ext = ".PNG" -> ".png"
      [] ext = ".Pdf" -> ".pdf"
      [] OTHER -> ext

SUPPORTED_EXTENSIONS == <<".mmd", ".md", ".png", ".pdf">>

isSupportedExtension(ext) ==
    \E i \in 1..Len(SUPPORTED_EXTENSIONS) : SUPPORTED_EXTENSIONS[i] = ext

\* getFormatFromExtension: "" stands for undefined.
getFormatFromExtension(ext) ==
    IF ext = ".png" THEN "png" ELSE IF ext = ".pdf" THEN "pdf" ELSE ""

\* !options.x of an optional string: left out or empty.
Falsy(opts, option) == option \notin DOMAIN opts \/ Len(opts[option]) = 0

RECURSIVE RunModelsLoop(_, _, _)
\* The while loop of traverseModels under a maxDepth that is any number.
RunModelsLoop(bfs, schema, number) ==
    IF Len(bfs.queue) = 0 THEN bfs.result
    ELSE RunModelsLoop(
            ModelsIteration(bfs, schema, AtLeast(Head(bfs.queue).depth, number)),
            schema, number)

\* traverseModels(schema, {startModel, maxDepth}) as runCommand calls it.
traverseModels(schema, startModel, number) ==
    IF ~MapHas(schema.models, startModel)
    THEN [success |-> FALSE, error |-> StartModelNotFound(startModel)]
    ELSE [success |-> TRUE,
          models |-> RunModelsLoop(
                        StartModelsBfs(MapGet(schema.models, startModel), startModel),
                        schema, number)]

\* ------------------------------------------------------------- the state
VARIABLES
    schema,     \* the ParsedSchema every call reads
    pc,         \* per call: "idle", "loop" (inside the while loop), "returned"
    options,    \* per call: the TraversalOptions it was called with
    maxDepth,   \* per call: the destructured maxDepth (default applied)
    bfs,        \* per call: its visited set, queue and result array
    ret,        \* per call: the TraversalResult it returned
    rendererRegistry,   \* the RendererRegistry: renderers, defaultRendererName
    registryCalls,      \* the calls made on the registry and what each threw
    cli                 \* the run of the command line's runCommand

vars == <<schema, pc, options, maxDepth, bfs, ret, rendererRegistry, registryCalls, cli>>

\* What the traverser neither reads nor writes.
commandLine == <<rendererRegistry, registryCalls, cli>>

\* The options the calls are made with: maxDepth given or left out.
DepthArgs == (0 - 1)..MaxDepthArg

TraversalOptions ==
    [startEntity : Names] \cup [startEntity : Names, maxDepth : DepthArgs]

\* What the variables of a call hold while no call is in progress.
NoOptions == [startEntity |-> ""]

NoBfs == [visited |-> {}, queue |-> <<>>, result |-> <<>>]

NoResult == [pending |-> TRUE]

\* What cli holds while runCommand has not been called: nothing looked up,
\* computed, printed or written, the process running.
NoCommand ==
    [pc |-> "idle", options |-> <<>>, lookup |-> [found |-> FALSE], format |-> "",
     handed |-> <<>>, traversal |-> [pending |-> TRUE], rendered |-> <<>>,
     steps |-> <<>>, stdout |-> <<>>, stderr |-> <<>>, files |-> <<>>,
     exitCode |-> <<>>, parsed |-> [pending |-> TRUE]]

Init ==
    /\ \/ \E models \in LinkedMaps, views \in LinkedViews, enums \in LinkedEnums :
            /\ FitTogether(models, views)
            /\ schema = [models |-> models.map, views |-> views.map, enums |-> enums]
       \/ \E models \in FlatMaps, views \in FlatViews, enums \in FlatEnums :
            /\ FitTogether(models, views)
            /\ schema = [models |-> models.map, views |-> views.map, enums |-> enums]
    /\ pc = [c \in CallIds |-> "idle"]
    /\ options = [c \in CallIds |-> NoOptions]
    /\ maxDepth = [c \in CallIds |-> DEFAULT_MAX_DEPTH]
    /\ bfs = [c \in CallIds |-> NoBfs]
    /\ ret = [c \in CallIds |-> NoResult]
    /\ rendererRegistry = NewRegistry
    /\ registryCalls = <<>>
    /\ cli = NoCommand

\* traverseEntities up to the loop with a visited set that is not local:
\* it starts from what the visited sets of all calls hold.
CallOnSharedVisited(c, opts) ==
    /\ pc[c] = "idle"
    /\ options' = [options EXCEPT ![c] = opts]
    /\ maxDepth' = [maxDepth EXCEPT ![c] = MaxDepthOf(opts)]
    /\ LET startFound == findEntity(schema, opts.startEntity)
       IN  IF ~startFound.found
           THEN /\ ret' = [ret EXCEPT ![c] =
                        [success |-> FALSE, error |-> NotFoundError(opts.startEntity)]]
                /\ bfs' = [bfs EXCEPT ![c] = NoBfs]
                /\ pc' = [pc EXCEPT ![c] = "returned"]
           ELSE /\ ret' = [ret EXCEPT ![c] = NoResult]
                /\ bfs' = [bfs EXCEPT ![c] =
                        [StartBfs(startFound) EXCEPT
                            !.visited = @ \cup UNION {bfs[d].visited : d \in CallIds}]]
                /\ pc' = [pc EXCEPT ![c] = "loop"]
    /\ UNCHANGED <<schema, commandLine>>

\* traverseEntities up to the while loop: destructure the options, resolve
\* the start entity, fail or set up the BFS.
Call(c, opts) ==
    /\ pc[c] = "idle"
    /\ options' = [options EXCEPT ![c] = opts]
    /\ maxDepth' = [maxDepth EXCEPT ![c] = MaxDepthOf(opts)]
    /\ LET startFound == findEntity(schema, opts.startEntity)
       IN  IF ~startFound.found
           THEN /\ ret' = [ret EXCEPT ![c] =
                        [success |-> FALSE, error |-> NotFoundError(opts.startEntity)]]
                /\ bfs' = [bfs EXCEPT ![c] = NoBfs]
                /\ pc' = [pc EXCEPT ![c] = "returned"]
           ELSE /\ ret' = [ret EXCEPT ![c] = NoResult]
                /\ bfs' = [bfs EXCEPT ![c] = StartBfs(startFound)]
                /\ pc' = [pc EXCEPT ![c] = "loop"]
    /\ UNCHANGED <<schema, commandLine>>

\* An iteration that consumes what it traverses: the relations of the
\* dequeued model are removed from the model in schema.models.
IterateConsumingRelations(c) ==
    /\ pc[c] = "loop"
    /\ Len(bfs[c].queue) > 0
    /\ bfs' = [bfs EXCEPT ![c] = LoopBody(@, schema, maxDepth[c])]
    /\ schema' = [schema EXCEPT !.models =
            [i \in 1..Len(@) |->
                IF Head(bfs[c].queue).kind = "model"
                        /\ @[i].name = Head(bfs[c].queue).entity.name
                THEN [@[i] EXCEPT !.relations = <<>>]
                ELSE @[i]]]
    /\ UNCHANGED <<pc, options, maxDepth, ret, commandLine>>

\* An iteration over a visited set that all calls share (a module-level
\* Set for the local one of step 2).
IterateSharedVisited(c) ==
    /\ pc[c] = "loop"
    /\ Len(bfs[c].queue) > 0
    /\ LET shared == UNION {bfs[d].visited : d \in CallIds}
           after == LoopBody([bfs[c] EXCEPT !.visited = shared], schema, maxDepth[c])
       IN  bfs' = [d \in CallIds |->
                    IF d = c THEN after
                    ELSE [bfs[d] EXCEPT !.visited = after.visited]]
    /\ UNCHANGED <<schema, pc, options, maxDepth, ret, commandLine>>

\* One iteration of the while loop.
Iterate(c) ==
    /\ pc[c] = "loop"
    /\ Len(bfs[c].queue) > 0
    /\ bfs' = [bfs EXCEPT ![c] = LoopBody(@, schema, maxDepth[c])]
    /\ UNCHANGED <<schema, pc, options, maxDepth, ret, commandLine>>

\* Step 6: the queue is empty, return the result array.
Return(c) ==
    /\ pc[c] = "loop"
    /\ Len(bfs[c].queue) = 0
    /\ ret' = [ret EXCEPT ![c] = [success |-> TRUE, entities |-> bfs[c].result]]
    /\ pc' = [pc EXCEPT ![c] = "returned"]
    /\ UNCHANGED <<schema, options, maxDepth, bfs, commandLine>>

\* The caller is done with the result; the call's data is gone and the
\* next call starts from nothing.
Discard(c) ==
    /\ pc[c] = "returned"
    /\ pc' = [pc EXCEPT ![c] = "idle"]
    /\ options' = [options EXCEPT ![c] = NoOptions]
    /\ maxDepth' = [maxDepth EXCEPT ![c] = DEFAULT_MAX_DEPTH]
    /\ bfs' = [bfs EXCEPT ![c] = NoBfs]
    /\ ret' = [ret EXCEPT ![c] = NoResult]
    /\ UNCHANGED <<schema, commandLine>>

Next ==
    \/ \E opts \in TraversalOptions : Call(1, opts)
    \/ Iterate(1)
    \/ Return(1)
    \/ Discard(1)

Spec == Init /\ [][Next]_vars

\* The call is synchronous: once entered, the loop keeps running and the
\* function returns; nothing obliges a caller to call or to discard.
FairSpec == Spec /\ WF_vars(Iterate(1) \/ Return(1))

\* ===================================================== the neighbour graph
\* The graph the traversal is specified against, stated on (kind, name)
\* pairs and sets, independently of the traverser's own helpers.
Range(seq) == {seq[i] : i \in 1..Len(seq)}

NamesIn(map) == {e.name : e \in Range(map)}

KeyOf(record) == <<record.kind, record.entity.name>>

AllKeys ==
    ({"model"} \X NamesIn(schema.models)) \cup ({"view"} \X NamesIn(schema.views))
        \cup ({"enum"} \X NamesIn(schema.enums))

\* The model or view stored under a key.
EntityAt(key) ==
    IF key[1] = "model"
    THEN CHOOSE e \in Range(schema.models) : e.name = key[2]
    ELSE CHOOSE e \in Range(schema.views) : e.name = key[2]

\* A relation's target: the model of that name, else the view, else none.
RelationTargets(name) ==
    IF name \in NamesIn(schema.models) THEN {<<"model", name>>}
    ELSE IF name \in NamesIn(schema.views) THEN {<<"view", name>>}
    ELSE {}

\* The edges: model/view -> resolved relation targets and the enums its
\* field types name; enum -> the models and views with a field of its type.
Neighbours(key) ==
    IF key[1] = "enum"
    THEN {<<"model", e.name>> : e \in {m \in Range(schema.models) :
                                    \E f \in Range(m.fields) : f.type = key[2]}}
         \cup {<<"view", e.name>> : e \in {v \in Range(schema.views) :
                                    \E f \in Range(v.fields) : f.type = key[2]}}
    ELSE UNION {RelationTargets(r.relatedModel) : r \in Range(EntityAt(key).relations)}
         \cup {<<"enum", f.type>> : f \in {g \in Range(EntityAt(key).fields) :
                                    g.type \in NamesIn(schema.enums)}}

\* The key a start name resolves to, for a name some map has.
StartKey(name) ==
    IF name \in NamesIn(schema.models) THEN <<"model", name>>
    ELSE IF name \in NamesIn(schema.views) THEN <<"view", name>>
    ELSE <<"enum", name>>

Resolves(name) ==
    name \in NamesIn(schema.models) \cup NamesIn(schema.views) \cup NamesIn(schema.enums)

RECURSIVE Ball(_, _)
\* The keys at most d edges away from key.
Ball(key, d) ==
    IF d <= 0 THEN {key}
    ELSE LET inner == Ball(key, d - 1)
         IN  inner \cup UNION {Neighbours(k) : k \in inner}

\* The length of a shortest path from one key to another it can reach.
Distance(from, to) ==
    CHOOSE d \in 0..Cardinality(AllKeys) :
        /\ to \in Ball(from, d)
        /\ \A d2 \in 0..(d - 1) : to \notin Ball(from, d2)

\* A call that has returned success, and what it returned.
Succeeded(c) == pc[c] = "returned" /\ ret[c].success

Entities(c) == ret[c].entities

Start(c) == StartKey(options[c].startEntity)

\* ================================================================ claims
\* C1: a success result holds each (kind, name) pair at most once, whatever
\* cycles or back-edges the schema has.
NoEntityTwice ==
    \A c \in CallIds : Succeeded(c) =>
        \A i, j \in 1..Len(Entities(c)) :
            KeyOf(Entities(c)[i]) = KeyOf(Entities(c)[j]) => i = j

\* A call that expanded, at depth 1, an entity with an edge back to the start.
NoEntityTwiceWitness ==
    \E c \in CallIds :
        /\ Succeeded(c)
        /\ maxDepth[c] >= 2
        /\ \E i \in 1..Len(Entities(c)) :
            /\ Entities(c)[i].depth = 1
            /\ Start(c) \in Neighbours(KeyOf(Entities(c)[i]))

\* C2: the depth of every record is the length of a shortest path from the
\* start entity to it in the neighbour graph.
DepthIsDistance ==
    \A c \in CallIds : Succeeded(c) =>
        \A i \in 1..Len(Entities(c)) :
            /\ KeyOf(Entities(c)[i]) \in Ball(Start(c), Cardinality(AllKeys))
            /\ Entities(c)[i].depth = Distance(Start(c), KeyOf(Entities(c)[i]))

\* A record of depth 1 that a record of depth 1 before it has an edge to:
\* found again one level deeper, it keeps the depth of its first discovery.
DepthIsDistanceWitness ==
    \E c \in CallIds :
        /\ Succeeded(c)
        /\ maxDepth[c] >= 2
        /\ \E i, j \in 1..Len(Entities(c)) :
            /\ i < j
            /\ Entities(c)[i].depth = 1
            /\ Entities(c)[j].depth = 1
            /\ KeyOf(Entities(c)[j]) \in Neighbours(KeyOf(Entities(c)[i]))

\* C3: for maxDepth >= 0 the entities of a success result are exactly the
\* entities at distance <= maxDepth from the start.
ResultIsBall ==
    \A c \in CallIds : (Succeeded(c) /\ maxDepth[c] >= 0) =>
        {KeyOf(r) : r \in Range(Entities(c))} = Ball(Start(c), maxDepth[c])

\* A result that reaches distance maxDepth >= 1 and leaves out an entity
\* one edge farther.
ResultIsBallWitness ==
    \E c \in CallIds :
        /\ Succeeded(c)
        /\ maxDepth[c] >= 1
        /\ \E r \in Range(Entities(c)) : r.depth = maxDepth[c]
        /\ Ball(Start(c), maxDepth[c] + 1) # Ball(Start(c), maxDepth[c])

\* C4: a success result starts with the start entity at depth 0, and from
\* one record to the next the depth stays or grows by exactly 1.
LevelOrder ==
    \A c \in CallIds : Succeeded(c) =>
        /\ Len(Entities(c)) >= 1
        /\ KeyOf(Entities(c)[1]) = Start(c)
        /\ Entities(c)[1].depth = 0
        /\ \A i \in 1..(Len(Entities(c)) - 1) :
            /\ Entities(c)[i].depth <= Entities(c)[i + 1].depth
            /\ Entities(c)[i + 1].depth <= Entities(c)[i].depth + 1

\* A result with two records at depth 1 followed by a record at depth 2.
LevelOrderWitness ==
    \E c \in CallIds :
        /\ Succeeded(c)
        /\ Len(Entities(c)) >= 4
        /\ Entities(c)[2].depth = 1
        /\ Entities(c)[3].depth = 1
        /\ Entities(c)[4].depth = 2

\* The larger maxDepth values a result is compared with.
LargerDepths(d) == (d + 1)..(DEFAULT_MAX_DEPTH + 1)

\* C5: the result for maxDepth = d >= 0 is a prefix of the result for every
\* larger maxDepth d2 (same entities, kinds, depths and order), and the
\* records d2 adds are all deeper than d.
PrefixOfDeeper ==
    \A c \in CallIds : (Succeeded(c) /\ maxDepth[c] >= 0) =>
        \A d2 \in LargerDepths(maxDepth[c]) :
            LET deeper == traverseEntities(schema,
                    [startEntity |-> options[c].startEntity, maxDepth |-> d2]).entities
            IN  /\ Len(deeper) >= Len(Entities(c))
                /\ SubSeq(deeper, 1, Len(Entities(c))) = Entities(c)
                /\ \A i \in (Len(Entities(c)) + 1)..Len(deeper) :
                        deeper[i].depth > maxDepth[c]

\* A result of several levels that the next larger maxDepth extends.
PrefixOfDeeperWitness ==
    \E c \in CallIds :
        /\ Succeeded(c)
        /\ maxDepth[c] >= 1
        /\ Len(Entities(c)) >= 3
        /\ Len(traverseEntities(schema,
                [startEntity |-> options[c].startEntity,
                 maxDepth |-> maxDepth[c] + 1]).entities) > Len(Entities(c))

\* The entities of the schema that a call has not recorded yet.
Rank(c) == Cardinality(AllKeys) - Len(bfs[c].result)

\* C6: the loop terminates, whatever cycles the schema has.  Rank is never
\* negative inside the loop, every iteration decreases it, and the loop is
\* left only with the queue empty, by returning a success result.
LoopTerminates ==
    /\ [](\A c \in CallIds : pc[c] = "loop" => Rank(c) >= 0)
    /\ [][\A c \in CallIds :
            (pc[c] = "loop" /\ bfs'[c] # bfs[c]) =>
                (pc'[c] = "loop" /\ Rank(c)' < Rank(c))]_vars
    /\ [][\A c \in CallIds :
            (pc[c] = "loop" /\ pc'[c] # "loop") =>
                (Len(bfs[c].queue) = 0 /\ pc'[c] = "returned" /\ ret'[c].success)]_vars

\* Termination as a temporal property, under FairSpec: a call inside the
\* loop returns.
EventuallyReturns == \A c \in CallIds : (pc[c] = "loop") ~> (pc[c] = "returned")

\* A call that has returned from a schema with a self-relation on the start
\* model and a model <-> enum cycle through it.
LoopTerminatesWitness ==
    \E c \in CallIds :
        /\ Succeeded(c)
        /\ maxDepth[c] >= 2
        /\ Start(c)[1] = "model"
        /\ Start(c) \in Neighbours(Start(c))
        /\ \E k \in Neighbours(Start(c)) : k[1] = "enum" /\ Start(c) \in Neighbours(k)

\* C7: a call fails exactly when the start name is a key of none of the
\* three maps; the error then names the start name and there are no entities.
FailsIffUnresolved ==
    \A c \in CallIds : pc[c] = "returned" =>
        /\ ret[c].success = Resolves(options[c].startEntity)
        /\ ~ret[c].success =>
            /\ options[c].startEntity \in Range(ret[c].error)
            /\ "entities" \notin DOMAIN ret[c]
            /\ bfs[c].result = <<>>

\* A failed call on a schema that is not empty.
FailsIffUnresolvedWitness ==
    \E c \in CallIds :
        /\ pc[c] = "returned"
        /\ ~ret[c].success
        /\ AllKeys # {}

\* C8: once the start resolves the call succeeds, and what resolves to
\* nothing is skipped without cutting the expansion short: every neighbour
\* of a record above maxDepth is in the result, at most one level deeper.
DeadEndsAreSkipped ==
    \A c \in CallIds :
        (pc[c] = "returned" /\ Resolves(options[c].startEntity)) =>
            /\ ret[c].success
            /\ \A r \in Range(Entities(c)) : r.depth < maxDepth[c] =>
                \A k \in Neighbours(KeyOf(r)) :
                    \E r2 \in Range(Entities(c)) :
                        KeyOf(r2) = k /\ r2.depth <= r.depth + 1

\* An expanded record whose first relation names no model and no view and
\* whose second relation resolves to another entity, found in the result.
DeadEndsAreSkippedWitness ==
    \E c \in CallIds :
        /\ Succeeded(c)
        /\ \E r \in Range(Entities(c)) :
            /\ r.depth < maxDepth[c]
            /\ r.kind # "enum"
            /\ Len(r.entity.relations) = 2
            /\ RelationTargets(r.entity.relations[1].relatedModel) = {}
            /\ \E k \in RelationTargets(r.entity.relations[2].relatedModel) :
                /\ k # KeyOf(r)
                /\ \E r2 \in Range(Entities(c)) : KeyOf(r2) = k /\ r2.depth = r.depth + 1

\* C9: with maxDepth = 0 a resolvable start gives exactly one record, the
\* start entity with its kind at depth 0.
DepthZeroIsStartOnly ==
    \A c \in CallIds :
        (pc[c] = "returned" /\ maxDepth[c] = 0 /\ Resolves(options[c].startEntity)) =>
            /\ ret[c].success
            /\ Len(Entities(c)) = 1
            /\ KeyOf(Entities(c)[1]) = Start(c)
            /\ Entities(c)[1].depth = 0

\* A maxDepth = 0 call from a start entity with more than one neighbour.
DepthZeroIsStartOnlyWitness ==
    \E c \in CallIds :
        /\ Succeeded(c)
        /\ maxDepth[c] = 0
        /\ Cardinality(Neighbours(Start(c)) \ {Start(c)}) >= 2

HasFieldOfType(entity, type) == \E f \in Range(entity.fields) : f.type = type

\* The keys of the models, then of the views, with a field of type name.
EnumUsers(name) ==
    LET IsUser(e) == HasFieldOfType(e, name)
        users == SelectSeq(schema.models, IsUser)
        viewUsers == SelectSeq(schema.views, IsUser)
    IN  [i \in 1..Len(users) |-> <<"model", users[i].name>>]
            \o [i \in 1..Len(viewUsers) |-> <<"view", viewUsers[i].name>>]

\* The keys of the records of depth d, in the order of the result.
AtDepth(records, d) ==
    LET IsAtDepth(r) == r.depth = d
        level == SelectSeq(records, IsAtDepth)
    IN  [i \in 1..Len(level) |-> KeyOf(level[i])]

\* C10: from an enum start with maxDepth >= 1 the records of depth 1 are the
\* models with a field of the enum's type, in the order of schema.models,
\* then the views with such a field, in the order of schema.views, each once
\* however many such fields it has, and nothing else.
EnumStartFindsUsers ==
    \A c \in CallIds :
        (Succeeded(c) /\ maxDepth[c] >= 1 /\ Start(c)[1] = "enum") =>
            AtDepth(Entities(c), 1) = EnumUsers(options[c].startEntity)

\* An enum start whose users are two models, the schema also holding a
\* model or view that does not use the enum.
EnumStartFindsUsersWitness ==
    \E c \in CallIds :
        /\ Succeeded(c)
        /\ maxDepth[c] >= 1
        /\ Start(c)[1] = "enum"
        /\ Len(AtDepth(Entities(c), 1)) = 2
        /\ AtDepth(Entities(c), 1)[1][1] = "model"
        /\ AtDepth(Entities(c), 1)[2][1] = "model"
        /\ \E e \in Range(schema.models) \cup Range(schema.views) :
                ~HasFieldOfType(e, options[c].startEntity)

\* An enum start whose users are a model and a view.
EnumStartModelAndViewWitness ==
    \E c \in CallIds :
        /\ Succeeded(c)
        /\ maxDepth[c] >= 1
        /\ Start(c)[1] = "enum"
        /\ Len(AtDepth(Entities(c), 1)) = 2
        /\ AtDepth(Entities(c), 1)[1][1] = "model"
        /\ AtDepth(Entities(c), 1)[2][1] = "view"

\* An enum start with a user that has two fields of the enum's type.
EnumStartTwoFieldsWitness ==
    \E c \in CallIds :
        /\ Succeeded(c)
        /\ maxDepth[c] >= 1
        /\ Start(c)[1] = "enum"
        /\ \E r \in Range(Entities(c)) :
            /\ r.depth = 1
            /\ Len(r.entity.fields) = 2
            /\ r.entity.fields[1].type = options[c].startEntity
            /\ r.entity.fields[2].type = options[c].startEntity

\* The enums a model or view references: the field types that are names of
\* schema.enums.
EnumsReferencedBy(entity) ==
    {f.type : f \in {g \in Range(entity.fields) : g.type \in NamesIn(schema.enums)}}

\* C11: from a model start with maxDepth >= 1, every enum of schema.enums
\* that is the type of one of the model's fields is in the result at depth 1
\* with kind "enum", exactly once even when several fields have that type.
ModelStartFindsEnums ==
    \A c \in CallIds :
        (Succeeded(c) /\ maxDepth[c] >= 1 /\ Start(c)[1] = "model") =>
            \A name \in EnumsReferencedBy(EntityAt(Start(c))) :
                /\ Cardinality({i \in 1..Len(Entities(c)) :
                        KeyOf(Entities(c)[i]) = <<"enum", name>>}) = 1
                /\ \A r \in Range(Entities(c)) :
                        KeyOf(r) = <<"enum", name>> =>
                            (r.depth = 1 /\ r.entity \in Range(schema.enums))

\* A model start with two fields of the same enum type, that enum having
\* the model's own name or another.
ModelStartFindsEnumsWitness ==
    \E c \in CallIds :
        /\ Succeeded(c)
        /\ maxDepth[c] >= 1
        /\ Start(c)[1] = "model"
        /\ Len(EntityAt(Start(c)).fields) = 2
        /\ EntityAt(Start(c)).fields[1].type = EntityAt(Start(c)).fields[2].type
        /\ EnumsReferencedBy(EntityAt(Start(c))) # {}

\* The start entity of a call has a relation that resolves to itself.
StartRelatesToItself(c) ==
    /\ Resolves(options[c].startEntity)
    /\ Start(c)[1] # "enum"
    /\ \E r \in Range(EntityAt(Start(c)).relations) :
            Start(c) \in RelationTargets(r.relatedModel)

\* The records a call has enqueued so far: its output, then its queue.
Enqueued(c) == bfs[c].result \o bfs[c].queue

\* C12: a start entity with a relation to itself is enqueued exactly once,
\* at depth 0, whatever maxDepth is and whatever other relations it has:
\* at every point of the loop and in the returned result, where it is first.
SelfRelationOnce ==
    \A c \in CallIds :
        (pc[c] \in {"loop", "returned"} /\ StartRelatesToItself(c)) =>
            /\ Cardinality({i \in 1..Len(Enqueued(c)) :
                    KeyOf(Enqueued(c)[i]) = Start(c)}) = 1
            /\ KeyOf(Enqueued(c)[1]) = Start(c)
            /\ Enqueued(c)[1].depth = 0
            /\ pc[c] = "returned" =>
                    (ret[c].success /\ Entities(c) = bfs[c].result /\ bfs[c].queue = <<>>)

\* A returned call whose start relates to itself and that expanded, one
\* level deeper, another entity with an edge back to the start.
SelfRelationOnceWitness ==
    \E c \in CallIds :
        /\ Succeeded(c)
        /\ StartRelatesToItself(c)
        /\ maxDepth[c] >= 2
        /\ \E r \in Range(Entities(c)) :
            /\ r.depth = 1
            /\ Start(c) \in Neighbours(KeyOf(r))

\* ============================================== the blog schemas (BlogSpec)
\* Schemas around the models User, Post, Profile and Tag, inserted in that
\* order, and the enums Role and Status: User has up to BlogRelations
\* relations to Post, Profile and itself and up to BlogFields fields typed
\* Role, Status or String (no enum); Post has up to BlogRelations relations
\* to Tag and User; Profile may relate to Tag and Tag back to Post.
BlogNames == {"User", "Post", "Profile", "Tag", "Role", "Status"}

BlogOptions ==
    [startEntity : BlogNames] \cup [startEntity : BlogNames, maxDepth : DepthArgs]

BlogInit ==
    /\ \E userRelations \in SeqsUpTo([relatedModel : {"Post", "Profile", "User"}],
                                      BlogRelations),
          postRelations \in SeqsUpTo([relatedModel : {"Tag", "User"}], BlogRelations),
          profileRelations \in SeqsUpTo([relatedModel : {"Tag"}], 1),
          tagRelations \in SeqsUpTo([relatedModel : {"Post"}], 1),
          userFields \in SeqsUpTo([type : {"Role", "Status", "String"}], BlogFields) :
            schema = [models |-> <<[name |-> "User", fields |-> userFields,
                                    relations |-> userRelations],
                                   [name |-> "Post", fields |-> <<>>,
                                    relations |-> postRelations],
                                   [name |-> "Profile", fields |-> <<>>,
                                    relations |-> profileRelations],
                                   [name |-> "Tag", fields |-> <<>>,
                                    relations |-> tagRelations]>>,
                      views |-> <<>>,
                      enums |-> <<[name |-> "Role"], [name |-> "Status"]>>]
    /\ pc = [c \in CallIds |-> "idle"]
    /\ options = [c \in CallIds |-> NoOptions]
    /\ maxDepth = [c \in CallIds |-> DEFAULT_MAX_DEPTH]
    /\ bfs = [c \in CallIds |-> NoBfs]
    /\ ret = [c \in CallIds |-> NoResult]
    /\ rendererRegistry = NewRegistry
    /\ registryCalls = <<>>
    /\ cli = NoCommand

BlogNext ==
    \/ \E opts \in BlogOptions : Call(1, opts)
    \/ Iterate(1)
    \/ Return(1)
    \/ Discard(1)

BlogSpec == BlogInit /\ [][BlogNext]_vars

\* The keys a record's expansion finds, in the order it finds them: for a
\* model or view the targets of its relations that resolve, in declaration
\* order, then the enums its fields are typed with, in field order; for an
\* enum its users.  A key may occur several times.
Children(key) ==
    IF key[1] = "enum" THEN EnumUsers(key[2])
    ELSE LET Resolved(r) == RelationTargets(r.relatedModel) # {}
             EnumTyped(f) == f.type \in NamesIn(schema.enums)
             relations == SelectSeq(EntityAt(key).relations, Resolved)
             fields == SelectSeq(EntityAt(key).fields, EnumTyped)
         IN  [i \in 1..Len(relations) |->
                    CHOOSE k \in RelationTargets(relations[i].relatedModel) : TRUE]
                \o [i \in 1..Len(fields) |-> <<"enum", fields[i].type>>]

RECURSIVE ChildrenOfAll(_)
\* The children of the keys of one level, parent after parent.
ChildrenOfAll(level) ==
    IF level = <<>> THEN <<>>
    ELSE Children(Head(level)) \o ChildrenOfAll(Tail(level))

RECURSIVE FirstOccurrences(_, _)
\* A sequence of keys without the keys seen before and without repetitions.
FirstOccurrences(keys, seen) ==
    IF keys = <<>> THEN <<>>
    ELSE IF Head(keys) \in seen THEN FirstOccurrences(Tail(keys), seen)
    ELSE <<Head(keys)>> \o FirstOccurrences(Tail(keys), seen \cup {Head(keys)})

RECURSIVE LevelByLevel(_, _, _, _)
\* The <<key, depth>> pairs from one level on, down to depth max.
LevelByLevel(level, seen, depth, max) ==
    IF level = <<>> THEN <<>>
    ELSE [i \in 1..Len(level) |-> <<level[i], depth>>]
            \o (IF depth >= max THEN <<>>
                ELSE LET below == FirstOccurrences(ChildrenOfAll(level), seen)
                     IN  LevelByLevel(below, seen \cup Range(below), depth + 1, max))

\* The <<key, depth>> pairs of a result, in its order.
KeysAndDepths(records) ==
    [i \in 1..Len(records) |-> <<KeyOf(records[i]), records[i].depth>>]

\* The schema of the example: User(posts -> Post, profile -> Profile) and
\* Post(tags -> Tag, author -> User), whatever Profile and Tag relate to.
IsBlogExample ==
    /\ Len(schema.models) = 4
    /\ schema.models[1].name = "User"
    /\ schema.models[1].relations =
            <<[relatedModel |-> "Post"], [relatedModel |-> "Profile"]>>
    /\ \A f \in Range(schema.models[1].fields) : f.type \notin NamesIn(schema.enums)
    /\ schema.models[2].name = "Post"
    /\ schema.models[2].relations =
            <<[relatedModel |-> "Tag"], [relatedModel |-> "User"]>>

\* C13: the order of a result is determined by the schema.  The records of
\* depth k + 1 are the children of the records of depth k, parent after
\* parent in the order of depth k, the children of a model or view being its
\* resolved relation targets in declaration order followed by its enums in
\* field order, each key at its first occurrence only.  In the example,
\* start User and maxDepth 2 give User@0, Post@1, Profile@1, Tag@2.
DeclarationOrder ==
    \A c \in CallIds : Succeeded(c) =>
        /\ KeysAndDepths(Entities(c))
                = LevelByLevel(<<Start(c)>>, {Start(c)}, 0, maxDepth[c])
        /\ (IsBlogExample /\ options[c].startEntity = "User" /\ maxDepth[c] = 2) =>
                KeysAndDepths(Entities(c)) =
                    << <<(<<"model", "User">>), 0>>, <<(<<"model", "Post">>), 1>>,
                       <<(<<"model", "Profile">>), 1>>, <<(<<"model", "Tag">>), 2>> >>

\* The example: start User, maxDepth 2, in the schema with the back-relation
\* from Tag to Post.
DeclarationOrderWitness ==
    \E c \in CallIds :
        /\ Succeeded(c)
        /\ IsBlogExample
        /\ schema.models[4].relations = <<[relatedModel |-> "Post"]>>
        /\ options[c].startEntity = "User"
        /\ "maxDepth" \in DOMAIN options[c]
        /\ maxDepth[c] = 2

\* A result where a parent's enums follow its relation targets and the
\* next parent's children follow both.
DeclarationOrderEnumsWitness ==
    \E c \in CallIds :
        /\ Succeeded(c)
        /\ Len(Entities(c)) >= 5
        /\ Entities(c)[2].kind = "model"
        /\ Entities(c)[3].kind = "enum"
        /\ Entities(c)[4].kind = "enum"
        /\ Entities(c)[5].depth = 2

\* C14: a call without maxDepth returns what the call with maxDepth = 3
\* returns, for every schema and start name, resolvable or not.
DefaultDepthIsThree ==
    \A c \in CallIds :
        (pc[c] = "returned" /\ "maxDepth" \notin DOMAIN options[c]) =>
            /\ ret[c] = traverseEntities(schema,
                    [startEntity |-> options[c].startEntity, maxDepth |-> 3])
            /\ ret[c].success =>
                    {KeyOf(r) : r \in Range(Entities(c))} = Ball(Start(c), 3)

\* A call without maxDepth that returned a record of depth 3 and left out
\* an entity four edges from the start.
DefaultDepthIsThreeWitness ==
    \E c \in CallIds :
        /\ Succeeded(c)
        /\ "maxDepth" \notin DOMAIN options[c]
        /\ \E r \in Range(Entities(c)) : r.depth = 3
        /\ Ball(Start(c), 4) # Ball(Start(c), 3)

\* The map of the schema that holds the entities of a kind.
MapOfKind(kind) ==
    IF kind = "model" THEN schema.models
    ELSE IF kind = "view" THEN schema.views
    ELSE schema.enums

\* C15: the traverser borrows the ParsedSchema.  No step of a call, failing
\* or succeeding, changes the schema; the entities a call returns are the
\* schema's own, fields and relations as they were; and from one point of
\* the loop to the next only the call's visited set, queue and output change.
SchemaIsBorrowed ==
    /\ [][schema' = schema]_vars
    /\ [](\A c \in CallIds : pc[c] \in {"loop", "returned"} =>
            \A r \in Range(Enqueued(c)) : r.entity \in Range(MapOfKind(r.kind)))
    /\ [][\A c \in CallIds : (pc[c] = "loop" /\ pc'[c] = "loop") =>
            (options'[c] = options[c] /\ maxDepth'[c] = maxDepth[c]
                /\ ret'[c] = ret[c])]_vars

\* A returned call that expanded a model with a relation and an enum-typed
\* field, both followed.
SchemaIsBorrowedWitness ==
    \E c \in CallIds :
        /\ Succeeded(c)
        /\ Len(Entities(c)) >= 3
        /\ Entities(c)[1].kind = "model"
        /\ Entities(c)[1].entity.relations # <<>>
        /\ Entities(c)[1].entity.fields # <<>>
        /\ \E r \in Range(Entities(c)) : r.kind = "enum"

\* ================================== interleaved calls (ConcurrentSpec)
\* All the calls of CallIds against one schema of the linked family with at
\* most ConcurrentEntities models and views, their steps interleaved in any
\* order; each call is made with maxDepth left out or with the depth of
\* ConcurrentDepths.
ConcurrentDepths == {1}

\* Models and views of one schema under ConcurrentSpec, together.
ConcurrentEntities == 2

ConcurrentOptions ==
    [startEntity : Names] \cup [startEntity : Names, maxDepth : ConcurrentDepths]

ConcurrentInit ==
    /\ \E models \in LinkedMaps, views \in LinkedViews, enums \in LinkedEnums :
            /\ FitTogether(models, views)
            /\ models.size[1] + views.size[1] <= ConcurrentEntities
            /\ schema = [models |-> models.map, views |-> views.map, enums |-> enums]
    /\ pc = [c \in CallIds |-> "idle"]
    /\ options = [c \in CallIds |-> NoOptions]
    /\ maxDepth = [c \in CallIds |-> DEFAULT_MAX_DEPTH]
    /\ bfs = [c \in CallIds |-> NoBfs]
    /\ ret = [c \in CallIds |-> NoResult]
    /\ rendererRegistry = NewRegistry
    /\ registryCalls = <<>>
    /\ cli = NoCommand

ConcurrentNext ==
    \E c \in CallIds :
        \/ \E opts \in ConcurrentOptions : Call(c, opts)
        \/ Iterate(c)
        \/ Return(c)
        \/ Discard(c)

ConcurrentSpec == ConcurrentInit /\ [][ConcurrentNext]_vars

\* What belongs to one call.
CallState(c) == <<pc[c], options[c], maxDepth[c], bfs[c], ret[c]>>

\* C16: calls interleaved on one unmodified schema do not interfere.  Each
\* call returns exactly what traverseEntities returns for its own options,
\* and no step changes what belongs to two calls.
RunsAlone ==
    /\ [](\A c \in CallIds : pc[c] = "returned" =>
            ret[c] = traverseEntities(schema, options[c]))
    /\ [][\A c, d \in CallIds :
            (c # d /\ CallState(c)' # CallState(c)) => CallState(d)' = CallState(d)]_vars

\* Two calls from different starts both in the middle of their loops, each
\* with records in its output and in its queue, an entity visited by both.
RunsAloneWitness ==
    \E c, d \in CallIds :
        /\ c # d
        /\ pc[c] = "loop" /\ pc[d] = "loop"
        /\ options[c].startEntity # options[d].startEntity
        /\ bfs[c].result # <<>> /\ bfs[c].queue # <<>>
        /\ bfs[d].result # <<>> /\ bfs[d].queue # <<>>
        /\ bfs[c].visited \cap bfs[d].visited # {}

\* The schema with its views declared as models, after the models.
ViewsAsModels ==
    [models |-> schema.models \o schema.views, views |-> <<>>, enums |-> schema.enums]

\* Records found in ViewsAsModels, the views among them tagged as views again.
TaggedAsViews(records) ==
    [i \in 1..Len(records) |->
        IF records[i].kind = "model" /\ records[i].entity.name \in NamesIn(schema.views)
        THEN [records[i] EXCEPT !.kind = "view"]
        ELSE records[i]]

\* C17: a view is expanded exactly like a model.  A view start is recorded
\* with kind "view"; the relation targets and enums of an expanded view and
\* the views using an expanded enum are in the result one level deeper at
\* most; and where no view shares its name with a model, the result is the
\* one of the schema with the views declared as models, kinds apart.
ViewsLikeModels ==
    \A c \in CallIds : Succeeded(c) =>
        /\ Start(c)[1] = "view" =>
                (Entities(c)[1].kind = "view" /\ Entities(c)[1].depth = 0
                    /\ Entities(c)[1].entity \in Range(schema.views))
        /\ \A r \in Range(Entities(c)) :
                (r.depth < maxDepth[c] /\ r.kind = "view") =>
                    \A k \in Neighbours(KeyOf(r)) :
                        \E r2 \in Range(Entities(c)) :
                            KeyOf(r2) = k /\ r2.depth <= r.depth + 1
        /\ \A r \in Range(Entities(c)) :
                (r.depth < maxDepth[c] /\ r.kind = "enum") =>
                    \A v \in Range(schema.views) :
                        HasFieldOfType(v, r.entity.name) =>
                            \E r2 \in Range(Entities(c)) :
                                KeyOf(r2) = <<"view", v.name>> /\ r2.depth <= r.depth + 1
        /\ NamesIn(schema.views) \cap NamesIn(schema.models) = {} =>
                Entities(c) =
                    TaggedAsViews(traverseEntities(ViewsAsModels, options[c]).entities)

\* A view start whose relation led to a model and whose field led to an
\* enum, both at depth 1.
ViewsLikeModelsWitness ==
    \E c \in CallIds :
        /\ Succeeded(c)
        /\ Start(c)[1] = "view"
        /\ \E r \in Range(Entities(c)) : r.kind = "model" /\ r.depth = 1
        /\ \E r \in Range(Entities(c)) : r.kind = "enum" /\ r.depth = 1

\* A result where an enum led to a view and the view's relation to a model.
ViewsLikeModelsEnumWitness ==
    \E c \in CallIds :
        /\ Succeeded(c)
        /\ \E i, j, k \in 1..Len(Entities(c)) :
            /\ i < j /\ j < k
            /\ Entities(c)[i].kind = "enum"
            /\ Entities(c)[j].kind = "view"
            /\ Entities(c)[j].depth = Entities(c)[i].depth + 1
            /\ KeyOf(Entities(c)[j]) \in Neighbours(KeyOf(Entities(c)[i]))
            /\ Entities(c)[k].kind = "model"
            /\ Entities(c)[k].depth = Entities(c)[j].depth + 1
            /\ KeyOf(Entities(c)[k]) \in Neighbours(KeyOf(Entities(c)[j]))

\* C18: at every iteration of the loop the visited set is exactly the set
\* of keys of the records enqueued so far, those of the output and those of
\* the queue; no key is twice in the queue, twice in the output, or in both.
VisitedIsEnqueued ==
    \A c \in CallIds : pc[c] = "loop" =>
        /\ bfs[c].visited =
                {entityKey(r.kind, r.entity.name) : r \in Range(Enqueued(c))}
        /\ \A i, j \in 1..Len(Enqueued(c)) :
                KeyOf(Enqueued(c)[i]) = KeyOf(Enqueued(c)[j]) => i = j
        /\ {KeyOf(r) : r \in Range(bfs[c].queue)}
                \cap {KeyOf(r) : r \in Range(bfs[c].result)} = {}

\* A point of the loop with two records in the output and two in the queue,
\* a queued record having an edge to a recorded one.
VisitedIsEnqueuedWitness ==
    \E c \in CallIds :
        /\ pc[c] = "loop"
        /\ Len(bfs[c].result) >= 2
        /\ Len(bfs[c].queue) >= 2
        /\ \E q \in Range(bfs[c].queue), r \in Range(bfs[c].result) :
                KeyOf(r) \in Neighbours(KeyOf(q))

\* C19: for maxDepth >= 0 no record is enqueued or output deeper than
\* maxDepth, and an iteration that dequeues a record of depth >= maxDepth
\* appends it to the output and does nothing else: the visited set is left
\* as it is and the queue only loses its head.
NeverBeyondMaxDepth ==
    /\ [](\A c \in CallIds : (pc[c] \in {"loop", "returned"} /\ maxDepth[c] >= 0) =>
            \A r \in Range(Enqueued(c)) : r.depth <= maxDepth[c])
    /\ [][\A c \in CallIds :
            (/\ pc[c] = "loop" /\ pc'[c] = "loop" /\ bfs'[c] # bfs[c]
             /\ Head(bfs[c].queue).depth >= maxDepth[c]) =>
                /\ bfs'[c].result = Append(bfs[c].result, Head(bfs[c].queue))
                /\ bfs'[c].queue = Tail(bfs[c].queue)
                /\ bfs'[c].visited = bfs[c].visited]_vars

\* A returned call with maxDepth >= 1 whose records of depth maxDepth are
\* two, one of them with a neighbour that was never visited.
NeverBeyondMaxDepthWitness ==
    \E c \in CallIds :
        /\ Succeeded(c)
        /\ maxDepth[c] >= 1
        /\ Len(AtDepth(Entities(c), maxDepth[c])) = 2
        /\ \E r \in Range(Entities(c)) :
            /\ r.depth = maxDepth[c]
            /\ \E k \in Neighbours(KeyOf(r)) :
                    entityKey(k[1], k[2]) \notin bfs[c].visited

\* C20: entities of different kinds under one name do not suppress each
\* other.  When an expanded record has a neighbour whose name another
\* record of the result bears with another kind (a model N recorded, an enum
\* or view N the neighbour), the neighbour has its own record, exactly one,
\* of its own kind and holding its own entity.
KindsDoNotCollide ==
    \A c \in CallIds : Succeeded(c) =>
        \A r \in Range(Entities(c)) : r.depth < maxDepth[c] =>
            \A k \in Neighbours(KeyOf(r)) :
                (\E r0 \in Range(Entities(c)) :
                        r0.entity.name = k[2] /\ r0.kind # k[1]) =>
                    /\ Cardinality({i \in 1..Len(Entities(c)) :
                            KeyOf(Entities(c)[i]) = k}) = 1
                    /\ \A r2 \in Range(Entities(c)) :
                            KeyOf(r2) = k =>
                                (r2.entity \in Range(MapOfKind(k[1]))
                                    /\ r2.depth <= r.depth + 1)

\* A result with a model N and, after it, an enum N that a record expanded
\* after the model's visit has an edge to.
KindsDoNotCollideWitness ==
    \E c \in CallIds :
        /\ Succeeded(c)
        /\ \E i, j \in 1..Len(Entities(c)) :
            /\ i < j
            /\ Entities(c)[i].kind = "model"
            /\ Entities(c)[j].kind = "enum"
            /\ Entities(c)[i].entity.name = Entities(c)[j].entity.name
            /\ \E r \in Range(Entities(c)) :
                /\ r.depth < maxDepth[c]
                /\ KeyOf(Entities(c)[j]) \in Neighbours(KeyOf(r))

\* A result with a model N and, after it, a view N.
KindsDoNotCollideViewWitness ==
    \E c \in CallIds :
        /\ Succeeded(c)
        /\ \E i, j \in 1..Len(Entities(c)) :
            /\ i < j
            /\ Entities(c)[i].kind = "model"
            /\ Entities(c)[j].kind = "view"
            /\ Entities(c)[i].entity.name = Entities(c)[j].entity.name

\* The kind a name is found under: the first of model, view, enum whose map
\* has the name, "none" when no map has it.
FirstKind(name) ==
    IF \E m \in Range(schema.models) : m.name = name THEN "model"
    ELSE IF \E v \in Range(schema.views) : v.name = name THEN "view"
    ELSE IF \E e \in Range(schema.enums) : e.name = name THEN "enum"
    ELSE "none"

\* C21: findEntity returns the first match of models, views, enums, with
\* the kind of the map it was found in and that map's entity, and finds
\* nothing only for a name no map has; the traversal starts from that match
\* and its start record carries that kind.
FirstMatchWins ==
    /\ \A name \in Names :
            IF FirstKind(name) = "none"
            THEN ~findEntity(schema, name).found
            ELSE /\ findEntity(schema, name).found
                 /\ findEntity(schema, name).kind = FirstKind(name)
                 /\ findEntity(schema, name).entity.name = name
                 /\ findEntity(schema, name).entity \in Range(MapOfKind(FirstKind(name)))
    /\ \A c \in CallIds : pc[c] \in {"loop", "returned"} =>
            IF FirstKind(options[c].startEntity) = "none"
            THEN pc[c] = "returned" /\ ~ret[c].success
            ELSE /\ Enqueued(c)[1].kind = FirstKind(options[c].startEntity)
                 /\ Enqueued(c)[1].entity.name = options[c].startEntity
                 /\ Enqueued(c)[1].entity
                        \in Range(MapOfKind(FirstKind(options[c].startEntity)))
                 /\ Enqueued(c)[1].depth = 0
                 /\ pc[c] = "returned" => ret[c].success

\* A returned call whose start name is a key of all three maps.
FirstMatchWinsWitness ==
    \E c \in CallIds :
        /\ Succeeded(c)
        /\ options[c].startEntity \in NamesIn(schema.models)
        /\ options[c].startEntity \in NamesIn(schema.views)
        /\ options[c].startEntity \in NamesIn(schema.enums)

\* A returned call whose start name is a key of the views and the enums only.
FirstMatchWinsViewWitness ==
    \E c \in CallIds :
        /\ Succeeded(c)
        /\ options[c].startEntity \notin NamesIn(schema.models)
        /\ options[c].startEntity \in NamesIn(schema.views)
        /\ options[c].startEntity \in NamesIn(schema.enums)

\* The relations of an entity whose target is the name of a model or view.
ResolvingRelations(entity) ==
    LET Resolving(r) ==
            r.relatedModel \in NamesIn(schema.models) \cup NamesIn(schema.views)
    IN  SelectSeq(entity.relations, Resolving)

\* C22: getRelatedEntities returns one element for each relation whose
\* target names a model or a view, in declaration order: the model of that
\* name if there is one, otherwise the view.  Relations that name neither
\* (those naming only an enum included) leave no element and raise nothing.
RelationsResolveInOrder ==
    \A e \in Range(schema.models) \cup Range(schema.views) :
        LET kept == ResolvingRelations(e)
            related == getRelatedEntities(e, schema)
        IN  /\ Len(related) = Len(kept)
            /\ \A i \in 1..Len(related) :
                /\ related[i].entity.name = kept[i].relatedModel
                /\ related[i].kind =
                        (IF kept[i].relatedModel \in NamesIn(schema.models)
                         THEN "model" ELSE "view")
                /\ related[i].entity \in Range(MapOfKind(related[i].kind))

\* A returned call that expanded an entity with two relations, the first
\* naming only an enum, the second a name that a model and a view share.
RelationsResolveInOrderWitness ==
    \E c \in CallIds :
        /\ Succeeded(c)
        /\ \E r \in Range(Entities(c)) :
            /\ r.kind # "enum"
            /\ r.depth < maxDepth[c]
            /\ Len(r.entity.relations) = 2
            /\ r.entity.relations[1].relatedModel \in NamesIn(schema.enums)
            /\ r.entity.relations[1].relatedModel
                    \notin NamesIn(schema.models) \cup NamesIn(schema.views)
            /\ r.entity.relations[2].relatedModel
                    \in NamesIn(schema.models) \cap NamesIn(schema.views)
            /\ Len(getRelatedEntities(r.entity, schema)) = 1

ModelOptions ==
    [startModel : Names] \cup [startModel : Names, maxDepth : DepthArgs]

\* The models maps of ModelsSpec: up to MaxEntities models over Names in any
\* insertion order, up to ModelOwnRelations relations a model and
\* ModelOnlyRelations in all, to any of Names or to D, which no model is
\* named, every model with the same fields.
ModelOnlyMaps ==
    UNION {{[i \in 1..Len(ns) |->
                [name |-> ns[i], fields |-> fs, relations |-> rs[i]]] :
                    rs \in {lists \in [1..Len(ns) ->
                                    SeqsUpTo([relatedModel : Names \cup {"D"}],
                                             ModelOwnRelations)] :
                                TotalLen(lists) <= ModelOnlyRelations},
                    fs \in SeqsUpTo([type : {"A"}], 1)} :
           ns \in KeyOrders(Names)}

ModelsInit ==
    /\ \E models \in ModelOnlyMaps :
            schema = [models |-> models, views |-> <<>>, enums |-> <<>>]
    /\ pc = [c \in CallIds |-> "idle"]
    /\ options = [c \in CallIds |-> NoOptions]
    /\ maxDepth = [c \in CallIds |-> DEFAULT_MAX_DEPTH]
    /\ bfs = [c \in CallIds |-> NoBfs]
    /\ ret = [c \in CallIds |-> NoResult]
    /\ rendererRegistry = NewRegistry
    /\ registryCalls = <<>>
    /\ cli = NoCommand

\* traverseModels up to its while loop.
CallModels(c, opts) ==
    /\ pc[c] = "idle"
    /\ options' = [options EXCEPT ![c] = opts]
    /\ maxDepth' = [maxDepth EXCEPT ![c] = MaxDepthOf(opts)]
    /\ IF ~MapHas(schema.models, opts.startModel)
       THEN /\ ret' = [ret EXCEPT ![c] =
                    [success |-> FALSE, error |-> StartModelNotFound(opts.startModel)]]
            /\ bfs' = [bfs EXCEPT ![c] = NoBfs]
            /\ pc' = [pc EXCEPT ![c] = "returned"]
       ELSE /\ ret' = [ret EXCEPT ![c] = NoResult]
            /\ bfs' = [bfs EXCEPT ![c] =
                    StartModelsBfs(MapGet(schema.models, opts.startModel),
                                   opts.startModel)]
            /\ pc' = [pc EXCEPT ![c] = "loop"]
    /\ UNCHANGED <<schema, commandLine>>

\* One iteration of the while loop of traverseModels.
IterateModels(c) ==
    /\ pc[c] = "loop"
    /\ Len(bfs[c].queue) > 0
    /\ bfs' = [bfs EXCEPT ![c] = ModelsLoopBody(@, schema, maxDepth[c])]
    /\ UNCHANGED <<schema, pc, options, maxDepth, ret, commandLine>>

\* Step 6 of traverseModels.
ReturnModels(c) ==
    /\ pc[c] = "loop"
    /\ Len(bfs[c].queue) = 0
    /\ ret' = [ret EXCEPT ![c] = [success |-> TRUE, models |-> bfs[c].result]]
    /\ pc' = [pc EXCEPT ![c] = "returned"]
    /\ UNCHANGED <<schema, options, maxDepth, bfs, commandLine>>

ModelsNext ==
    \/ \E opts \in ModelOptions : CallModels(1, opts)
    \/ IterateModels(1)
    \/ ReturnModels(1)
    \/ Discard(1)

ModelsSpec == ModelsInit /\ [][ModelsNext]_vars

\* The options of traverseEntities that say what options of traverseModels say.
AsEntityOptions(opts) ==
    IF "maxDepth" \in DOMAIN opts
    THEN [startEntity |-> opts.startModel, maxDepth |-> opts.maxDepth]
    ELSE [startEntity |-> opts.startModel]

\* C24: on a schema without views and enums the unified traverser does what
\* the model-only one does.  For the options of a returned traverseModels
\* call, traverseEntities fails if and only if that call failed, and
\* otherwise returns records of kind "model" only, with the same models at
\* the same depths in the same order.
UnifiedRefinesModels ==
    \A c \in CallIds : pc[c] = "returned" =>
        LET unified == traverseEntities(schema, AsEntityOptions(options[c]))
        IN  /\ schema.views = <<>> /\ schema.enums = <<>>
            /\ unified.success = ret[c].success
            /\ ret[c].success =>
                /\ Len(unified.entities) = Len(ret[c].models)
                /\ \A i \in 1..Len(unified.entities) :
                    /\ unified.entities[i].kind = "model"
                    /\ unified.entities[i].entity = ret[c].models[i].model
                    /\ unified.entities[i].entity.name = ret[c].models[i].model.name
                    /\ unified.entities[i].depth = ret[c].models[i].depth

\* A returned traverseModels call over three models with fields, the third
\* at depth 2, the start model's first relation naming no model.
UnifiedRefinesModelsWitness ==
    \E c \in CallIds :
        /\ pc[c] = "returned"
        /\ ret[c].success
        /\ Len(ret[c].models) = 3
        /\ ret[c].models[3].depth = 2
        /\ ret[c].models[1].model.fields # <<>>
        /\ Len(ret[c].models[1].model.relations) = 2
        /\ ret[c].models[1].model.relations[1].relatedModel \notin NamesIn(schema.models)

\* A returned traverseModels call whose second model relates back to the
\* start and on to a third.
UnifiedRefinesModelsCycleWitness ==
    \E c \in CallIds :
        /\ pc[c] = "returned"
        /\ ret[c].success
        /\ Len(ret[c].models) = 3
        /\ ret[c].models[3].depth = 2
        /\ ret[c].models[2].model.relations =
                <<[relatedModel |-> options[c].startModel],
                  [relatedModel |-> ret[c].models[3].model.name]>>

\* The negative maxDepth values a result is compared with.
NegativeDepths == (0 - 3)..(0 - 1)

\* C25: a negative maxDepth is not rejected.  A call with a negative
\* maxDepth and a start that resolves succeeds with exactly one record, the
\* start entity at depth 0: what maxDepth = 0 gives, and the same for every
\* negative maxDepth.
NegativeDepthIsZero ==
    \A c \in CallIds :
        (pc[c] = "returned" /\ maxDepth[c] < 0 /\ Resolves(options[c].startEntity)) =>
            /\ ret[c].success
            /\ Len(Entities(c)) = 1
            /\ KeyOf(Entities(c)[1]) = Start(c)
            /\ Entities(c)[1].entity \in Range(MapOfKind(Start(c)[1]))
            /\ Entities(c)[1].depth = 0
            /\ ret[c] = traverseEntities(schema,
                    [startEntity |-> options[c].startEntity, maxDepth |-> 0])
            /\ \A d \in NegativeDepths :
                    ret[c] = traverseEntities(schema,
                        [startEntity |-> options[c].startEntity, maxDepth |-> d])

\* A returned call with a negative maxDepth from a start entity that has a
\* relation target and an enum as neighbours.
NegativeDepthIsZeroWitness ==
    \E c \in CallIds :
        /\ Succeeded(c)
        /\ maxDepth[c] < 0
        /\ \E k \in Neighbours(Start(c)) : k[1] = "enum"
        /\ \E k \in Neighbours(Start(c)) : k[1] # "enum" /\ k # Start(c)

\* C30: at every iteration of the loop the depths in the queue do not
\* decrease from head to tail, the tail is at most one level below the
\* head, and no queued record is less deep than the record appended to the
\* output last.
QueueIsLevelled ==
    \A c \in CallIds : pc[c] = "loop" =>
        LET queue == bfs[c].queue
            result == bfs[c].result
        IN  /\ \A i \in 1..(Len(queue) - 1) : queue[i].depth <= queue[i + 1].depth
            /\ queue # <<>> => queue[Len(queue)].depth <= Head(queue).depth + 1
            /\ result # <<>> =>
                    \A q \in Range(queue) : q.depth >= result[Len(result)].depth

\* A point of the loop with records of two levels in the queue, behind an
\* output whose last record is as deep as the head of the queue.
QueueIsLevelledWitness ==
    \E c \in CallIds :
        /\ pc[c] = "loop"
        /\ Len(bfs[c].queue) >= 2
        /\ bfs[c].queue[Len(bfs[c].queue)].depth = Head(bfs[c].queue).depth + 1
        /\ Len(bfs[c].result) >= 2
        /\ bfs[c].result[Len(bfs[c].result)].depth = Head(bfs[c].queue).depth

\* ------------------------------------------- the registry under its calls
\* Callers register renderers and clear the registry in any order.  The
\* renderers offered differ in name and, under one name, in description, so
\* that two instances of one name can be told apart.
MaxRegistryCalls == 4

RendererNames == {"vector", "mermaid"}

Descriptions == {"first", "second"}

DiagramRenderers ==
    [name : RendererNames, description : Descriptions,
     exports : {FALSE}, export : {FALSE}]

\* RendererRegistration: isDefault is optional.
Registrations ==
    [renderer : DiagramRenderers] \cup [renderer : DiagramRenderers, isDefault : BOOLEAN]

RegistryInit ==
    /\ schema = [models |-> <<>>, views |-> <<>>, enums |-> <<>>]
    /\ pc = [c \in CallIds |-> "idle"]
    /\ options = [c \in CallIds |-> NoOptions]
    /\ maxDepth = [c \in CallIds |-> DEFAULT_MAX_DEPTH]
    /\ bfs = [c \in CallIds |-> NoBfs]
    /\ ret = [c \in CallIds |-> NoResult]
    /\ rendererRegistry = NewRegistry
    /\ registryCalls = <<>>
    /\ cli = NoCommand

\* A call of register: the registry after it, and the call with what it
\* threw at the end of the calls made.
Register(registration) ==
    /\ Len(registryCalls) < MaxRegistryCalls
    /\ LET outcome == register(rendererRegistry, registration)
       IN  /\ rendererRegistry' = outcome.registry
           /\ registryCalls' = Append(registryCalls,
                    [op |-> "register", registration |-> registration,
                     thrown |-> outcome.thrown])
    /\ UNCHANGED <<schema, pc, options, maxDepth, bfs, ret, cli>>

\* A call of clear.
Clear ==
    /\ Len(registryCalls) < MaxRegistryCalls
    /\ rendererRegistry' = clear(rendererRegistry)
    /\ registryCalls' = Append(registryCalls, [op |-> "clear"])
    /\ UNCHANGED <<schema, pc, options, maxDepth, bfs, ret, cli>>

RegistryNext ==
    \/ \E registration \in Registrations : Register(registration)
    \/ Clear

RegistrySpec == RegistryInit /\ [][RegistryNext]_vars

\* The call made last.
LastCall == registryCalls[Len(registryCalls)]

\* C26: a call of register with a renderer whose name is registered throws
\* 'Renderer "<name>" is already registered' and leaves the registry as it
\* was: the renderer registered before stays under the name and the default
\* name stays, also when the registration asked to be the default; a call
\* with a name not registered throws nothing.
DuplicateIsRejected ==
    [][(registryCalls' # registryCalls /\ LastCall'.op = "register") =>
        LET name == LastCall'.registration.renderer.name
        IN  IF name \in Range(listNames(rendererRegistry))
            THEN /\ LastCall'.thrown = <<"Renderer \"", name, "\" is already registered">>
                 /\ get(rendererRegistry', name) = get(rendererRegistry, name)
                 /\ getDefaultName(rendererRegistry') = getDefaultName(rendererRegistry)
                 /\ rendererRegistry' = rendererRegistry
            ELSE LastCall'.thrown = <<>>]_vars

\* A rejected registration that asked to be the default, of another
\* instance than the one registered under the name, while another name is
\* the default.
DuplicateIsRejectedWitness ==
    /\ registryCalls # <<>>
    /\ LastCall.op = "register"
    /\ LastCall.thrown # <<>>
    /\ IsDefault(LastCall.registration)
    /\ getDefaultName(rendererRegistry) # LastCall.registration.renderer.name
    /\ get(rendererRegistry, LastCall.registration.renderer.name).renderer
            # LastCall.registration.renderer

\* The calls since the last clear (all of them when there was none).
RECURSIVE SinceClear(_)
SinceClear(calls) ==
    IF calls = <<>> THEN <<>>
    ELSE IF calls[Len(calls)].op = "clear" THEN <<>>
    ELSE Append(SinceClear(SubSeq(calls, 1, Len(calls) - 1)), calls[Len(calls)])

\* The registrations among the calls that did not throw.
Successful(calls) ==
    SelectSeq(calls, LAMBDA call : call.op = "register" /\ call.thrown = <<>>)

\* The name the claim gives the default: that of the last successful
\* registration with isDefault = true since the last clear, else "vector".
ExpectedDefaultName ==
    LET defaults == SelectSeq(Successful(SinceClear(registryCalls)),
                        LAMBDA call : "isDefault" \in DOMAIN call.registration
                                        /\ call.registration.isDefault = TRUE)
    IN  IF defaults = <<>> THEN "vector"
        ELSE defaults[Len(defaults)].registration.renderer.name

\* The renderers registered successfully since the last clear.
ExpectedRenderers ==
    {call.registration.renderer : call \in Range(Successful(SinceClear(registryCalls)))}

\* C27: after any calls of register and clear, getDefaultName() is the name
\* of the last successful registration with isDefault = true since the last
\* clear, or "vector"; getDefault() is the renderer registered under that
\* name, and undefined exactly when none is.
DefaultIsLastDefault ==
    LET name == getDefaultName(rendererRegistry)
        registered == {r \in ExpectedRenderers : r.name = name}
    IN  /\ name = ExpectedDefaultName
        /\ getDefault(rendererRegistry).found <=> registered # {}
        /\ getDefault(rendererRegistry).found =>
                registered = {getDefault(rendererRegistry).renderer}

\* Two successful default registrations, then a clear, then a registration
\* that is not the default: the default name is "vector" again and no
\* renderer is registered under it.
DefaultIsLastDefaultWitness ==
    /\ Len(registryCalls) = 4
    /\ \A i \in 1..2 : /\ registryCalls[i].op = "register"
                       /\ registryCalls[i].thrown = <<>>
                       /\ IsDefault(registryCalls[i].registration)
    /\ registryCalls[2].registration.renderer.name = "mermaid"
    /\ registryCalls[3].op = "clear"
    /\ LastCall.op = "register"
    /\ LastCall.registration.renderer.name = "mermaid"
    /\ getDefaultName(rendererRegistry) = "vector"
    /\ ~getDefault(rendererRegistry).found

\* The default moved by a later default registration, with its renderer
\* registered.
DefaultIsLastDefaultMovedWitness ==
    /\ Len(registryCalls) >= 2
    /\ getDefaultName(rendererRegistry) = "mermaid"
    /\ getDefault(rendererRegistry).found
    /\ \E i \in 1..Len(registryCalls) :
            /\ registryCalls[i].op = "register"
            /\ registryCalls[i].thrown = <<>>
            /\ IsDefault(registryCalls[i].registration)
            /\ registryCalls[i].registration.renderer.name = "vector"
            /\ \A j \in i..Len(registryCalls) : registryCalls[j].op = "register"

\* ============================================ the command line (CliSpec)
\* One run of runCommand against the registry as the renderer module leaves
\* it, or one call of parseCliOptions.
MaxDepthChars == 3

\* The characters a --depth value is written with.
DepthChars == {" ", "-", "1", "2", "x"}

\* options.depth: what was written, or commander's default String(3).
DepthStrings == SeqsUpTo(DepthChars, MaxDepthChars) \cup {String(DEFAULT_CLI_DEPTH)}

OutputPaths ==
    {<<"erd">>, <<"erd", ".mmd">>, <<"erd", ".png">>, <<"erd", ".PNG">>,
     <<"erd", ".pdf">>, <<"erd", ".txt">>}

\* An option that may be left out: no field, or the field with one of the
\* values.
Optional(option, values) == {<<>>} \cup {[o \in {option} |-> value] : value \in values}

\* The options commander hands to runCommand: depth and renderer always
\* there, the others when written.
CommandOptions ==
    {required @@ schemaOption @@ modelOption @@ outputOption @@ listOption :
        required \in [depth : DepthStrings, renderer : {"vector", "mermaid", "dot"}],
        schemaOption \in Optional("schema", {"schema.prisma"}),
        modelOption \in Optional("model", {"", "A", "D"}),
        outputOption \in Optional("output", OutputPaths),
        listOption \in Optional("listRenderers", {TRUE})}

\* What parseSchema can resolve to: a failure, or a schema of models: a
\* chain A, B, C; A and B relating to each other; A alone relating to itself
\* and to a model that is missing.
ParsedModel(name, targets) ==
    [name |-> name, fields |-> <<>>,
     relations |-> [i \in 1..Len(targets) |-> [relatedModel |-> targets[i]]]]

ParseResults ==
    {[success |-> FALSE,
      error |-> <<"Failed to read schema file: ", "schema.prisma">>]} \cup
    {[success |-> TRUE, schema |-> [models |-> models, views |-> <<>>, enums |-> <<>>]] :
        models \in {<<ParsedModel("A", <<"B">>), ParsedModel("B", <<"C">>),
                      ParsedModel("C", <<>>)>>,
                    <<ParsedModel("B", <<"A">>), ParsedModel("A", <<"B">>)>>,
                    <<ParsedModel("A", <<"A", "E">>)>>}}

\* The registry after renderer/index.ts has run: vector the default, then
\* mermaid, which exports or is text-only.
ModuleRegistrations(mermaid) ==
    <<[renderer |-> [name |-> "vector", description |-> "first",
                     exports |-> TRUE, export |-> TRUE],
       isDefault |-> TRUE],
      [renderer |-> [name |-> "mermaid", description |-> "first",
                     exports |-> mermaid.exports, export |-> mermaid.export],
       isDefault |-> FALSE]>>

CliInit ==
    /\ schema = [models |-> <<>>, views |-> <<>>, enums |-> <<>>]
    /\ pc = [c \in CallIds |-> "idle"]
    /\ options = [c \in CallIds |-> NoOptions]
    /\ maxDepth = [c \in CallIds |-> DEFAULT_MAX_DEPTH]
    /\ bfs = [c \in CallIds |-> NoBfs]
    /\ ret = [c \in CallIds |-> NoResult]
    /\ \E mermaid \in [exports : BOOLEAN, export : BOOLEAN] :
            LET registrations == ModuleRegistrations(mermaid)
                first == register(NewRegistry, registrations[1])
                second == register(first.registry, registrations[2])
            IN  /\ rendererRegistry = second.registry
                /\ registryCalls =
                        <<[op |-> "register", registration |-> registrations[1],
                           thrown |-> first.thrown],
                          [op |-> "register", registration |-> registrations[2],
                           thrown |-> second.thrown]>>
    /\ cli = NoCommand

\* console.error(message); process.exit(1), after the steps that were made.
Exit(run, message) ==
    [run EXCEPT !.pc = "exited", !.stderr = Append(@, message), !.exitCode = <<1>>]

\* A step of runCommand made, with whether it succeeded.
Made(run, step, ok) == [run EXCEPT !.steps = Append(@, [step |-> step, ok |-> ok])]

TraversalFiller == <<schema, pc, options, maxDepth, bfs, ret>>

\* runCommand up to Step 1: --list-renderers, then the required options.
RunCommand ==
    /\ cli.pc = "idle"
    /\ \E opts \in CommandOptions :
         LET run == [cli EXCEPT !.options = opts]
         IN  cli' =
              IF "listRenderers" \in DOMAIN opts /\ opts.listRenderers
              THEN [run EXCEPT !.pc = "returned",
                               !.stdout = Append(@,
                                  [kind |-> "renderers",
                                   names |-> listNames(rendererRegistry),
                                   default |-> getDefaultName(rendererRegistry)])]
              ELSE IF Falsy(opts, "schema")
              THEN Exit(run, <<"Error: Missing required option: --schema <path>">>)
              ELSE IF Falsy(opts, "model")
              THEN Exit(run, <<"Error: Missing required option: --model <name>">>)
              ELSE [run EXCEPT !.pc = "renderer"]
    /\ UNCHANGED <<TraversalFiller, rendererRegistry, registryCalls>>

\* Step 1: validate and get the renderer.
LookUpRenderer ==
    /\ cli.pc = "renderer"
    /\ LET lookup == get(rendererRegistry, cli.options.renderer)
       IN  cli' =
            IF ~lookup.found
            THEN Exit(Made(cli, "renderer", FALSE),
                      <<"Error: Unknown renderer \"", cli.options.renderer, "\"",
                        "Available renderers: ", listNames(rendererRegistry)>>)
            ELSE [Made(cli, "renderer", TRUE) EXCEPT !.pc = "extension", !.lookup = lookup]
    /\ UNCHANGED <<TraversalFiller, rendererRegistry, registryCalls>>

\* Step 2 going on after an extension that is not supported.
CheckExtensionAnyExtension ==
    /\ cli.pc = "extension"
    /\ LET ext == toLowerCase(extname(cli.options.output))
           format == getFormatFromExtension(ext)
       IN  cli' =
            IF Falsy(cli.options, "output")
            THEN [Made(cli, "extension", TRUE) EXCEPT !.pc = "parse"]
            ELSE IF format # "" /\ ~cli.lookup.renderer.exports
            THEN Exit(Made(cli, "extension", FALSE),
                      <<"Error: Renderer \"", cli.options.renderer,
                        "\" does not support export to ", format>>)
            ELSE [Made(cli, "extension", isSupportedExtension(ext))
                    EXCEPT !.pc = "parse", !.format = format]
    /\ UNCHANGED <<TraversalFiller, rendererRegistry, registryCalls>>

\* Step 2: the output format from the file extension.
CheckExtension ==
    /\ cli.pc = "extension"
    /\ LET ext == toLowerCase(extname(cli.options.output))
           format == getFormatFromExtension(ext)
       IN  cli' =
            IF Falsy(cli.options, "output")
            THEN [Made(cli, "extension", TRUE) EXCEPT !.pc = "parse"]
            ELSE IF ~isSupportedExtension(ext)
            THEN Exit(Made(cli, "extension", FALSE),
                      <<"Error: Unsupported file extension \"", ext, "\". Supported: ",
                        SUPPORTED_EXTENSIONS>>)
            ELSE IF format # "" /\ ~cli.lookup.renderer.exports
            THEN Exit(Made(cli, "extension", FALSE),
                      <<"Error: Renderer \"", cli.options.renderer,
                        "\" does not support export to ", format>>)
            ELSE [Made(cli, "extension", TRUE) EXCEPT !.pc = "parse", !.format = format]
    /\ UNCHANGED <<TraversalFiller, rendererRegistry, registryCalls>>

\* Step 3: parse the schema; parseSchema resolves to parseResult, a failure
\* when the file cannot be read or parsed.
ParseSchema(parseResult) ==
    /\ cli.pc = "parse"
    /\ IF ~parseResult.success
       THEN /\ cli' = Exit(Made(cli, "parse", FALSE), <<"Error: ", parseResult.error>>)
            /\ UNCHANGED schema
       ELSE /\ cli' = [Made(cli, "parse", TRUE) EXCEPT !.pc = "traverse"]
            /\ schema' = parseResult.schema
    /\ UNCHANGED <<pc, options, maxDepth, bfs, ret, rendererRegistry, registryCalls>>

\* Step 4 rendering whatever the traversal returned.
TraverseIgnoringFailure ==
    /\ cli.pc = "traverse"
    /\ LET depth == parseInt(cli.options.depth)
           traversalResult == traverseModels(schema, cli.options.model, depth)
           handed == [cli EXCEPT !.handed = Append(@, depth),
                                 !.traversal = traversalResult]
       IN  cli' = [Made(handed, "traverse", traversalResult.success)
                        EXCEPT !.pc = "render"]
    /\ UNCHANGED <<TraversalFiller, rendererRegistry, registryCalls>>

\* Step 4: traverse the models from options.model to the depth parseInt
\* makes of options.depth.
Traverse ==
    /\ cli.pc = "traverse"
    /\ LET depth == parseInt(cli.options.depth)
           traversalResult == traverseModels(schema, cli.options.model, depth)
           handed == [cli EXCEPT !.handed = Append(@, depth),
                                 !.traversal = traversalResult]
       IN  cli' =
            IF ~traversalResult.success
            THEN Exit(Made(handed, "traverse", FALSE),
                      <<"Error: ", traversalResult.error>>)
            ELSE [Made(handed, "traverse", TRUE) EXCEPT !.pc = "render"]
    /\ UNCHANGED <<TraversalFiller, rendererRegistry, registryCalls>>

\* What runCommand renders: traversalResult.models, which a failed result
\* does not have.
ModelsOf(traversalResult) ==
    IF "models" \in DOMAIN traversalResult THEN traversalResult.models ELSE <<>>

\* Step 5: renderer.render(traversalResult.models), the diagram being what
\* the renderer makes of the models; render may throw.
Render(threw) ==
    /\ cli.pc = "render"
    /\ cli' =
        IF threw THEN Exit(cli, <<"Error: ", "Unknown error">>)
        ELSE [cli EXCEPT !.pc = "output",
                         !.rendered = <<[renderer |-> cli.lookup.renderer.name,
                                         models |-> ModelsOf(cli.traversal)]>>]
    /\ UNCHANGED <<TraversalFiller, rendererRegistry, registryCalls>>

\* Step 6: export the diagram, write it, or print it; export and writeFile
\* may reject.
Output(rejected) ==
    /\ cli.pc = "output"
    /\ cli' =
        IF ~Falsy(cli.options, "output")
        THEN IF rejected THEN Exit(cli, <<"Error: ", "Unknown error">>)
             ELSE IF cli.format # "" /\ cli.lookup.renderer.export
             THEN [cli EXCEPT !.pc = "returned",
                        !.files = Append(@, [path |-> cli.options.output,
                                             format |-> cli.format,
                                             diagram |-> cli.rendered]),
                        !.stdout = Append(@, [kind |-> "exported",
                                              path |-> cli.options.output])]
             ELSE [cli EXCEPT !.pc = "returned",
                        !.files = Append(@, [path |-> cli.options.output,
                                             format |-> "utf-8",
                                             diagram |-> cli.rendered]),
                        !.stdout = Append(@, [kind |-> "written",
                                              path |-> cli.options.output])]
        ELSE [cli EXCEPT !.pc = "returned",
                         !.stdout = Append(@, [kind |-> "diagram",
                                               diagram |-> cli.rendered])]
    /\ UNCHANGED <<TraversalFiller, rendererRegistry, registryCalls>>

\* The arguments of parseCliOptions' --depth case.
DepthArguments == {<<>>, <<"--depth">>} \cup {<<"--depth", value>> : value \in DepthStrings}

\* A call of parseCliOptions.
ParseCliOptions(args) ==
    /\ cli.pc = "idle"
    /\ cli' = [cli EXCEPT !.pc = "parsed",
                          !.options = args,
                          !.parsed = parseDepthOption(args)]
    /\ UNCHANGED <<TraversalFiller, rendererRegistry, registryCalls>>

CliNext ==
    \/ RunCommand
    \/ LookUpRenderer
    \/ CheckExtension
    \/ \E parseResult \in ParseResults : ParseSchema(parseResult)
    \/ Traverse
    \/ \E threw \in BOOLEAN : Render(threw)
    \/ \E rejected \in BOOLEAN : Output(rejected)
    \/ \E args \in DepthArguments : ParseCliOptions(args)

CliSpec == CliInit /\ [][CliNext]_vars

\* A diagram was printed, written or exported.
DiagramProduced ==
    \/ cli.files # <<>>
    \/ \E i \in 1..Len(cli.stdout) :
            cli.stdout[i].kind \in {"diagram", "written", "exported"}

\* The extension check of Step 2 as the options and the renderer decide it.
ExtensionAccepted ==
    \/ "output" \notin DOMAIN cli.options
    \/ LET ext == toLowerCase(extname(cli.options.output))
       IN  /\ ext \in {".mmd", ".md", ".png", ".pdf"}
           /\ ext \in {".png", ".pdf"} =>
                MapGet(rendererRegistry.renderers, cli.options.renderer).exports

\* C28: runCommand prints, writes or exports a diagram only after the
\* renderer lookup, the extension check, the parsing and the traversal were
\* made in this order and all succeeded; when one of them fails the process
\* has exited with code 1 and no diagram was printed, written or exported.
OutputAfterAllSteps ==
    /\ DiagramProduced =>
        /\ [i \in 1..Len(cli.steps) |-> cli.steps[i].step]
                = <<"renderer", "extension", "parse", "traverse">>
        /\ \A i \in 1..Len(cli.steps) : cli.steps[i].ok
        /\ MapHas(rendererRegistry.renderers, cli.options.renderer)
        /\ ExtensionAccepted
        /\ MapHas(schema.models, cli.options.model)
        /\ cli.traversal.success
        /\ cli.exitCode = <<>>
    /\ (\E i \in 1..Len(cli.steps) : ~cli.steps[i].ok) =>
        /\ cli.exitCode = <<1>>
        /\ cli.pc = "exited"
        /\ cli.stderr # <<>>
        /\ ~DiagramProduced

\* A diagram of three models exported to a .PNG path by a run that is over.
OutputAfterAllStepsWitness ==
    /\ cli.pc = "returned"
    /\ Len(cli.files) = 1
    /\ cli.files[1].path = <<"erd", ".PNG">>
    /\ cli.files[1].format = "png"
    /\ Len(cli.traversal.models) = 3

\* A run that exited at the traversal, the three steps before it made.
OutputAfterAllStepsFailureWitness ==
    /\ cli.pc = "exited"
    /\ Len(cli.steps) = 4
    /\ ~cli.steps[4].ok
    /\ ~DiagramProduced

\* A number that is an integer and not negative.
IsValidDepth(number) == ~number.nan /\ number.value >= 0

\* C29: every maxDepth the command line hands to the traverser is a
\* non-negative integer: runCommand hands over no depth that parseInt makes
\* NaN or negative, and parseCliOptions succeeds with no such depth.
DepthIsValidated ==
    /\ \A i \in 1..Len(cli.handed) : IsValidDepth(cli.handed[i])
    /\ (cli.pc \in {"render", "output", "returned"}
            /\ "renderers" \notin {cli.stdout[i].kind : i \in 1..Len(cli.stdout)})
        => IsValidDepth(parseInt(cli.options.depth))
    /\ (cli.pc = "parsed" /\ cli.parsed.success) => IsValidDepth(cli.parsed.depth)

\* The half of C29 about parseCliOptions: it succeeds with a depth that is a
\* non-negative integer, and fails on a value parseInt makes NaN or
\* negative.
ParseCliOptionsValidates ==
    cli.pc = "parsed" =>
        /\ cli.parsed.success => IsValidDepth(cli.parsed.depth)
        /\ (Len(cli.options) = 2 /\ ~IsValidDepth(parseInt(cli.options[2])))
                => ~cli.parsed.success

\* parseCliOptions failing on a negative depth written behind a space.
ParseCliOptionsValidatesWitness ==
    /\ cli.pc = "parsed"
    /\ cli.options = <<"--depth", <<" ", "-", "1">>>>
    /\ cli.parsed = [success |-> FALSE,
                     error |-> <<"Invalid depth value: ", <<" ", "-", "1">>>>]

====
